---- MODULE Spec2Model ----
(***************************************************************************)
(* Model of the Vulkan render engine of dragonfire-engine                  *)
(* (crates/rendering/src/vulkan/engine.rs and engine/init.rs).             *)
(*                                                                         *)
(* Threads: the orchestrator (the caller of the RenderingEngine trait),    *)
(* thread_count render workers (render_thread), one presentation thread    *)
(* (presentation_thread) and the GPU, which completes submitted work and   *)
(* signals its fence.                                                      *)
(***************************************************************************)
EXTENDS Integers, Sequences, FiniteSets, TLC

\* ------------------------------------------------------------------ bounds
MaxThreads == 2      \* worker counts explored: 1..MaxThreads
MaxFrames == 3       \* begin_rendering is called while frame_count < MaxFrames
MaxDraws == 1        \* render calls per frame (Spec)
MaxLoads == 1        \* successful load_model / load_material calls (Spec)
MaxBatch == 2        \* render calls per frame (SpecDraw)
MaxBatchFrames == 2  \* frames (SpecDraw)
MaxSwapchains == 2   \* stale results are produced while swapchain.id < MaxSwapchains
NumMeshes == 2       \* mesh addresses
NumMaterials == 2    \* material addresses
MaxImages == 3       \* largest image count of a surface (SpecSwap)
MaxParallelism == 5  \* largest parallelism the machine reports (SpecSize)
MaxHandles == 5      \* Buffer, Image and GpuObject handles ever made (SpecAlloc)

\* ------------------------------------------------------- program constants
FRAMES_IN_FLIGHT == 2
ChannelCap == 16
NULL == 0

Slots == 0 .. (FRAMES_IN_FLIGHT - 1)
Meshes == 1 .. NumMeshes
Materials == 1 .. NumMaterials
Resolutions == {<<800, 600>>, <<1024, 768>>}

VARIABLES
    thread_count,       \* N: number of render workers (Engine::new)
    frame_count,        \* Engine.frame_count
    pc,                 \* position of the orchestrator inside the trait calls
    swapchain,          \* Engine.swapchain: [id, current_image_index]
    depth_image,        \* Engine.depth_image / depth_view (instance id)
    resolution,         \* Engine.resolution
    fence,              \* Frame.fence: TRUE = signaled
    sync_data,          \* Frame.sync_data: "NotDone" | "Ok" | "OutOfDate"
    primary_buffer,     \* Frame.primary_buffer: [state, cmds]
    secondary_buffers,  \* Frame.secondary_buffers: slot -> worker -> [state, cmds]
    render_channels,    \* Engine.render_channels: worker -> queue of RenderCommand
    render_barrier,     \* Engine.render_barrier: [count, generation]
    barrier_gen,        \* generation the orchestrator saw when it arrived
    last_mesh,          \* Engine.last_mesh
    last_material,      \* Engine.last_material
    current_thread,     \* Engine.current_thread
    worker,             \* locals of render_thread: pc, cmd, last_mesh, last_material, gen
    present,            \* presentation_thread: [pc, data, suboptimal, queue]
    gpu_pending,        \* slots whose submission the GPU has not finished
    meshes,             \* addresses of the meshes load_model returned
    materials,          \* addresses of the materials load_material returned
    calls,              \* render calls of the current frame: [mesh, material, thread]
    begins_sent,        \* worker -> number of Begin messages sent to it
    begins_recv,        \* worker -> number of Begin messages it processed
    ends_recv,          \* worker -> number of End messages it processed
    protocol_violation, \* a worker got Begin inside a frame or Render/End outside
    recreated,          \* swapchain recreations done by the current begin_rendering
    stale_cause,        \* why the current begin_rendering recreated last
    fence_wait_failed,  \* the fence wait of the current begin_rendering failed
    drop,               \* impl Drop for Engine: [status, pos, from, handles, log]
    textured,           \* materials whose Material.texture is Some
    pipeline_cache,     \* pipeline.rs CACHE: "uninit" | "live" | "destroyed"
    cache_file,         \* the pipeline_cache file of the cache directory
    load_log,           \* outcome of the last traced load_model / load_material
    surface,            \* capabilities the surface reports
    sync_mutex,         \* Frame.sync_data.0: slot -> thread holding the mutex
    sync_condvar,       \* Frame.sync_data.1: slot -> "none" | "parked" | "notified"
    cache_log,          \* CACHE in the runs that trace the loads: [created, failed, used]
    texture_cmd,        \* the one-shot command buffer of the last traced Texture::new
    available_parallelism, \* what std::thread::available_parallelism() answered Engine::new
    cleanup_log,        \* the calls cleanup_cache made to the driver and the file system, in order
    allocator,          \* the Arc<Allocator>: its strong count, the allocations it holds, the handles
    engines,            \* the Engines created in this process so far
    game,               \* the client: [pc, visible, frame] (Game and its event loop)
    round_trip          \* the Config of the serialization test, its YAML, the result

vars == <<thread_count, frame_count, pc, swapchain, depth_image, resolution, fence,
          sync_data, primary_buffer, secondary_buffers, render_channels,
          render_barrier, barrier_gen, last_mesh, last_material, current_thread,
          worker, present, gpu_pending, meshes, materials, calls,
          begins_sent, begins_recv, ends_recv, protocol_violation, recreated,
          stale_cause, fence_wait_failed, drop, textured, pipeline_cache,
          cache_file, load_log, surface, round_trip, game, engines, allocator, cleanup_log, available_parallelism, texture_cmd, cache_log, sync_mutex, sync_condvar>>

Workers == 0 .. (thread_count - 1)

\* The slot begin_rendering and end_rendering select.
Slot == frame_count % FRAMES_IN_FLIGHT

\* Value of Frame.sync_data after construction.
InitialRenderResult == "Ok"

\* vk::CommandBuffer::null()
NullCmd == NULL - 1

EmptyBuffer == [state |-> "initial", cmds |-> <<>>]

\* The fields of PresentData before any message was received.
NoData ==
    [render_semaphore |-> NULL, present_semaphore |-> NULL, cmd |-> NullCmd,
     swapchain |-> NULL, image_index |-> NULL, signal_fence |-> NULL, sync_data |-> NULL]

\* The presentation thread blocked in receiver.recv(); queue holds the queue
\* operations it has issued for the message it is handling.
PresentIdle == [pc |-> "recv", data |-> NoData, suboptimal |-> FALSE, queue |-> <<>>]

\* frames[s].graphics_semaphore and frames[s].present_semaphore.
GraphicsSemaphore(s) == <<s, "graphics_semaphore">>
PresentSemaphore(s) == <<s, "present_semaphore">>

\* The semaphore begin_rendering passes to self.swapchain.next for slot s: it
\* is signalled when the acquired image is available.
AcquireSemaphore(s) == PresentSemaphore(s)

\* submit_info and the fence argument of queue_submit.
SubmitInfoOf(data) ==
    [op |-> "queue_submit",
     command_buffers |-> <<data.cmd>>,
     wait_semaphores |-> <<data.present_semaphore>>,
     signal_semaphores |-> <<data.render_semaphore>>,
     fence |-> data.signal_fence]

\* present_info of queue_present.
PresentInfoOf(data) ==
    [op |-> "queue_present",
     wait_semaphores |-> <<data.render_semaphore>>,
     swapchains |-> <<data.swapchain>>,
     image_indices |-> <<data.image_index>>]

\* No load_model / load_material call has been traced.
NoLoad == [call |-> "none", failed |-> "none", returned |-> "none", leaked |-> {}]

Min(a, b) == IF a <= b THEN a ELSE b

Max(a, b) == IF a >= b THEN a ELSE b

\* ------------------------------------------------------- client Config
\* Text is a sequence of characters.
DigitChars == <<"0", "1", "2", "3", "4", "5", "6", "7", "8", "9">>

CharsOf(t) == {t[i] : i \in DOMAIN t}

\* Decimal text of a natural number, as an integer is written to YAML.
RECURSIVE DecimalText(_)
DecimalText(n) ==
    IF n < 10 THEN <<DigitChars[n + 1]>>
              ELSE Append(DecimalText(n \div 10), DigitChars[(n % 10) + 1])

IsDigits(t) == Len(t) > 0 /\ CharsOf(t) \subseteq CharsOf(DigitChars)

DigitValue(c) == CHOOSE d \in 0 .. 9 : DigitChars[d + 1] = c

\* Value of a text of digits, as an integer is read from YAML.
RECURSIVE DecimalValue(_)
DecimalValue(t) ==
    IF Len(t) = 0 THEN 0
    ELSE 10 * DecimalValue(SubSeq(t, 1, Len(t) - 1)) + DigitValue(t[Len(t)])

\* An f32: NaN, an infinity, or a finite value counted in thousandths (the
\* radians of the field of view); zero has a sign.
F32(class, neg, thousandths) ==
    [class |-> class, neg |-> neg, thousandths |-> thousandths]
NaN == F32("nan", FALSE, 0)

\* The thousandths of the finite fields of view of the configurations.
FovMagnitudes == {0, 785, 1571}

Floats ==
    {NaN, F32("inf", FALSE, 0), F32("inf", TRUE, 0)}
        \cup {F32("finite", neg, m) : neg \in BOOLEAN, m \in FovMagnitudes}

\* Digits padded with zeros on the left to n characters.
RECURSIVE PadLeft(_, _)
PadLeft(t, n) == IF Len(t) >= n THEN t ELSE PadLeft(<<"0">> \o t, n)

\* Digits of the fraction of a float.
FractionDigits == 3

RECURSIVE Pow10(_)
Pow10(n) == IF n = 0 THEN 1 ELSE 10 * Pow10(n - 1)

\* Mutant of FloatText: the fraction is written with two digits.
FloatText_Truncated(x) ==
    IF x.class = "nan" THEN <<".", "n", "a", "n">>
    ELSE IF x.class = "inf"
       THEN (IF x.neg THEN <<"-">> ELSE <<>>) \o <<".", "i", "n", "f">>
    ELSE (IF x.neg THEN <<"-">> ELSE <<>>)
            \o DecimalText(x.thousandths \div 1000) \o <<".">>
            \o PadLeft(DecimalText((x.thousandths % 1000) \div 10), 2)

\* serde_yaml::to_string of an f32: .nan, .inf, -.inf, or the decimal digits
\* that read back as the same value.
FloatText(x) ==
    IF x.class = "nan" THEN <<".", "n", "a", "n">>
    ELSE IF x.class = "inf"
       THEN (IF x.neg THEN <<"-">> ELSE <<>>) \o <<".", "i", "n", "f">>
    ELSE (IF x.neg THEN <<"-">> ELSE <<>>)
            \o DecimalText(x.thousandths \div 1000) \o <<".">>
            \o PadLeft(DecimalText(x.thousandths % 1000), FractionDigits)

\* What reading a scalar gives: a value, or the error of from_str.
Parsed(v) == [ok |-> TRUE, value |-> v]
ParseError(v) == [ok |-> FALSE, value |-> v]

\* serde_yaml::from_str of a float scalar.
ParseFloat(t) ==
    LET neg == Len(t) > 0 /\ t[1] = "-"
        body == IF neg THEN Tail(t) ELSE t
        dots == {i \in DOMAIN body : body[i] = "."}
        dot == CHOOSE i \in dots : TRUE
        whole == SubSeq(body, 1, dot - 1)
        fraction == SubSeq(body, dot + 1, Len(body))
    IN  IF t = <<".", "n", "a", "n">> THEN Parsed(NaN)
        ELSE IF body = <<".", "i", "n", "f">> THEN Parsed(F32("inf", neg, 0))
        ELSE IF Cardinality(dots) = 1 /\ IsDigits(whole) /\ IsDigits(fraction)
                   /\ Len(fraction) <= FractionDigits
           THEN Parsed(F32("finite", neg,
                           1000 * DecimalValue(whole)
                               + DecimalValue(fraction)
                                     * Pow10(FractionDigits - Len(fraction))))
        ELSE ParseError(NaN)

ParseU32(t) == IF IsDigits(t) THEN Parsed(DecimalValue(t)) ELSE ParseError(0)

BoolText(b) == IF b THEN <<"t", "r", "u", "e">> ELSE <<"f", "a", "l", "s", "e">>

ParseBool(t) ==
    IF t = BoolText(TRUE) THEN Parsed(TRUE)
    ELSE IF t = BoolText(FALSE) THEN Parsed(FALSE)
    ELSE ParseError(FALSE)

\* A YAML scalar: its text and whether it is written in quotes.
Scalar(style, text) == [style |-> style, text |-> text]

\* A string is quoted when its plain text would read as another type.
NeedsQuotes(t) ==
    \/ t = <<>>
    \/ t = <<"~">>
    \/ ParseBool(t).ok
    \/ IsDigits(t)
    \/ ParseFloat(t).ok

StringScalar(t) == Scalar(IF NeedsQuotes(t) THEN "quoted" ELSE "plain", t)

\* A String field takes the text of the scalar in either style.
ParseString(scalar) == Parsed(scalar.text)

\* Config and GraphicsSettings, as their derives lay the fields out.
ConfigOf(resolution_, fov, vsync, log_level) ==
    [graphics |-> [resolution |-> resolution_, fov |-> fov, vsync |-> vsync],
     log_level |-> log_level]

\* Config::default(): GraphicsSettings::default() (45 degrees are 0.785
\* radians) and the empty string.
DefaultConfig == ConfigOf(<<800, 600>>, F32("finite", FALSE, 785), TRUE, <<>>)

LogLevels == {<<>>, <<"i", "n", "f", "o">>, <<"t", "r", "u", "e">>, <<"~">>, <<"4", "5">>}

Configs ==
    {ConfigOf(r, fov, vsync, level) :
        r \in Resolutions \cup {<<0, 0>>}, fov \in Floats, vsync \in BOOLEAN,
        level \in LogLevels}

\* serde_yaml::to_string(&cfg): the mapping the derived Serialize writes.
to_string(cfg) ==
    [graphics |->
        [resolution |-> [i \in 1 .. 2 |->
                            Scalar("plain", DecimalText(cfg.graphics.resolution[i]))],
         fov |-> Scalar("plain", FloatText(cfg.graphics.fov)),
         vsync |-> Scalar("plain", BoolText(cfg.graphics.vsync))],
     log_level |-> StringScalar(cfg.log_level)]

\* serde_yaml::from_str(&string): the derived Deserialize reads every field.
from_str(string) ==
    LET width == ParseU32(string.graphics.resolution[1].text)
        height == ParseU32(string.graphics.resolution[2].text)
        fov == ParseFloat(string.graphics.fov.text)
        vsync == ParseBool(string.graphics.vsync.text)
        level == ParseString(string.log_level)
        cfg == ConfigOf(<<width.value, height.value>>, fov.value, vsync.value,
                        level.value)
    IN  IF width.ok /\ height.ok /\ fov.ok /\ vsync.ok /\ level.ok
           THEN Parsed(cfg) ELSE ParseError(cfg)

\* PartialEq of f32: NaN equals nothing, the two zeros are equal.
FloatEq(a, b) ==
    /\ a.class # "nan"
    /\ b.class # "nan"
    /\ \/ a = b
       \/ /\ a.class = "finite" /\ b.class = "finite"
          /\ a.thousandths = 0 /\ b.thousandths = 0

\* The derived PartialEq of Config and GraphicsSettings.
ConfigEq(a, b) ==
    /\ a.graphics.resolution = b.graphics.resolution
    /\ FloatEq(a.graphics.fov, b.graphics.fov)
    /\ a.graphics.vsync = b.graphics.vsync
    /\ a.log_level = b.log_level

\* The serialization test about to run on cfg.
TestOf(cfg) ==
    [pc |-> "start", cfg |-> cfg, string |-> to_string(DefaultConfig),
     result |-> ParseError(DefaultConfig)]

\* u32::MAX, the width and height of an undefined extent.  It stands at
\* 2^31 - 1, the largest integer of the checker; extents are only compared
\* with it.
U32Max == 2147483647

\* surface_format.format as get_surface_format chose it.
SurfaceFormat == "B8G8R8_SRGB"

\* Mutant of create_swapchain: the platform's extent is taken as it is.
create_swapchain_SurfaceExtent(capabilities, image_format, settings_resolution) ==
    [image_count |-> IF capabilities.max_image_count = 0
                        THEN capabilities.min_image_count + 1
                        ELSE Min(capabilities.max_image_count,
                                 capabilities.min_image_count + 1),
     format |-> image_format,
     extent |-> capabilities.current_extent]

\* Mutant of create_swapchain: the surface maximum is not looked at.
create_swapchain_Uncapped(capabilities, image_format, settings_resolution) ==
    [image_count |-> capabilities.min_image_count + 1,
     format |-> image_format,
     extent |-> IF capabilities.current_extent[2] = U32Max
                   THEN settings_resolution
                   ELSE capabilities.current_extent]

\* Mutant of create_swapchain: the surface minimum is requested as it is.
create_swapchain_Minimum(capabilities, image_format, settings_resolution) ==
    [image_count |-> capabilities.min_image_count,
     format |-> image_format,
     extent |-> IF capabilities.current_extent[2] = U32Max
                   THEN settings_resolution
                   ELSE capabilities.current_extent]

\* init.rs create_swapchain: the extent, the image count and the format of
\* the create info of the first swapchain.
create_swapchain(capabilities, image_format, settings_resolution) ==
    [image_count |-> IF capabilities.max_image_count = 0
                        THEN capabilities.min_image_count + 1
                        ELSE Min(capabilities.max_image_count,
                                 capabilities.min_image_count + 1),
     format |-> image_format,
     extent |-> IF capabilities.current_extent[2] = U32Max
                   THEN settings_resolution
                   ELSE capabilities.current_extent]

\* The platform reports no extent of its own.
UndefinedExtent(extent) == extent[1] = U32Max \/ extent[2] = U32Max

\* Swapchain::new, the constructor begin_rendering recreates with: the
\* target extent with its fallback to the configured resolution, an image
\* count of the surface minimum plus one capped by the maximum (0 = no limit).
SwapchainNew(capabilities, image_format, resolution_) ==
    LET wanted == capabilities.min_image_count + 1
    IN  [image_count |-> IF capabilities.max_image_count # 0
                               /\ wanted > capabilities.max_image_count
                            THEN capabilities.max_image_count
                            ELSE wanted,
         format |-> image_format,
         extent |-> IF UndefinedExtent(capabilities.current_extent)
                       THEN resolution_
                       ELSE capabilities.current_extent]

\* The Swapchain object number id built from the create info `info`.
SwapchainOf(id, info) ==
    [id |-> id, current_image_index |-> 0, image_count |-> info.image_count,
     format |-> info.format, extent |-> info.extent]

\* Capabilities of a surface with a fixed extent and no upper image limit.
DefaultSurface == [min_image_count |-> 2, max_image_count |-> 0,
                   current_extent |-> <<800, 600>>]

\* available_parallelism() answered Ok(n), n a NonZeroUsize.
Cores(n) == [ok |-> TRUE, value |-> n]

\* available_parallelism() answered Err: the parallelism is not known.
Unavailable == [ok |-> FALSE, value |-> 0]

\* What available_parallelism() can answer.
Parallelisms == {Unavailable} \cup {Cores(n) : n \in 1 .. MaxParallelism}

\* .map(NonZeroUsize::get).unwrap_or_default(): the count, 0 for an Err.
unwrap_or_default(p) == IF p.ok THEN p.value ELSE 0

\* Mutant of ThreadCount: half the cores, without the minimum of 1.
ThreadCount_Unclamped(p) == unwrap_or_default(p) \div 2

\* let thread_count = 1.max(available_parallelism()... / 2)
ThreadCount(p) == Max(1, unwrap_or_default(p) \div 2)

\* Identities of the handles of allocator memory: in the order of creation.
Handles == 1 .. MaxHandles

\* A handle that does not exist yet.
NoHandle == [kind |-> "none", state |-> "none", destroys |-> 0]

\* The live handle of a kind: Kind::new returned it, it was not dropped.
LiveHandle(kind) == [kind |-> kind, state |-> "live", destroys |-> 0]

\* The allocator when Engine::new returns: the Engine's Arc, the uniform
\* buffer (a GpuObject) of every frame and the depth image hold a reference.
InitialAllocator ==
    [strong |-> 1 + FRAMES_IN_FLIGHT + 1,
     allocations |-> 1 .. (FRAMES_IN_FLIGHT + 1),
     handle |-> [h \in Handles |->
                    IF h <= FRAMES_IN_FLIGHT THEN LiveHandle("GpuObject")
                    ELSE IF h = FRAMES_IN_FLIGHT + 1 THEN LiveHandle("Image")
                    ELSE NoHandle]]

\* The engine Engine::new returns, in a client holding the meshes ms and the
\* materials mats, with the cache file in one of the states `files` and the
\* surface reporting one of `surfaces`.
InitOn(cores, ms, mats, files, surfaces, configs) ==
    /\ available_parallelism \in cores
    /\ thread_count = ThreadCount(available_parallelism)
    /\ frame_count = 0
    /\ pc = "idle"
    /\ surface \in surfaces
    /\ resolution = <<800, 600>>
    /\ swapchain = SwapchainOf(1, create_swapchain(surface, SurfaceFormat, resolution))
    /\ depth_image = 1
    /\ fence = [s \in Slots |-> TRUE]
    /\ sync_data = [s \in Slots |-> InitialRenderResult]
    /\ primary_buffer = [s \in Slots |-> EmptyBuffer]
    /\ secondary_buffers = [s \in Slots |-> [w \in Workers |-> EmptyBuffer]]
    /\ render_channels = [w \in Workers |-> <<>>]
    /\ render_barrier = [count |-> 0, generation |-> 0]
    /\ barrier_gen = 0
    /\ last_mesh = NULL
    /\ last_material = NULL
    /\ current_thread = 0
    /\ worker = [w \in Workers |->
                    [pc |-> "recv", cmd |-> NullCmd, last_mesh |-> NULL,
                     last_material |-> NULL, gen |-> 0]]
    /\ present = PresentIdle
    /\ gpu_pending = {}
    /\ meshes = ms
    /\ materials = mats
    /\ calls = <<>>
    /\ begins_sent = [w \in Workers |-> 0]
    /\ begins_recv = [w \in Workers |-> 0]
    /\ ends_recv = [w \in Workers |-> 0]
    /\ protocol_violation = FALSE
    /\ recreated = 0
    /\ stale_cause = "none"
    /\ fence_wait_failed = FALSE
    /\ drop = [status |-> "alive", pos |-> 0, from |-> "none",
               handles |-> thread_count, log |-> <<>>]
    /\ textured = {}
    /\ pipeline_cache = IF mats = {} THEN "uninit" ELSE "live"
    /\ cache_file \in files
    /\ load_log = NoLoad
    /\ round_trip \in {TestOf(c) : c \in configs}
    /\ game = [pc |-> "new", visible |-> TRUE, frame |-> 0]
    /\ engines = 1
    /\ allocator = InitialAllocator
    /\ cleanup_log = <<>>
    /\ texture_cmd = <<>>
    /\ cache_log = [created |-> IF mats = {} THEN 0 ELSE 1, failed |-> FALSE,
                    used |-> IF mats = {} THEN {} ELSE {1}]
    /\ sync_condvar = [s \in Slots |-> "none"]
    /\ sync_mutex = [s \in Slots |-> "none"]

\* Engine::new on a machine with 2, 4, .. cores: 1 .. MaxThreads workers.
InitIn(ms, mats, files, surfaces, configs) ==
    InitOn({Cores(2 * n) : n \in 1 .. MaxThreads}, ms, mats, files, surfaces, configs)

InitWith(ms, mats) == InitIn(ms, mats, {"missing"}, {DefaultSurface}, {DefaultConfig})

Init == InitWith({}, {})

\* Variables no step of begin_rendering before the frame start touches.
RenderState == <<render_channels, render_barrier, barrier_gen, last_mesh, last_material,
                 current_thread, worker, calls, begins_sent, begins_recv, ends_recv,
                 protocol_violation, primary_buffer, secondary_buffers>>
PresentState == <<present, gpu_pending>>
LoadState == <<meshes, materials>>
\* State outside the frame machinery: the teardown, the textures of the
\* materials, the process-wide pipeline cache and its file, the last traced
\* load and the surface.
HostState == <<drop, textured, pipeline_cache, cache_file, load_log, surface, round_trip, game, engines, allocator, cleanup_log, available_parallelism, texture_cmd, cache_log,
               sync_mutex, sync_condvar>>

\* The caller may make a trait call when no other call is running.
InCaller == pc \in {"idle", "recording"}

\* --------------------------------------------------------- begin_rendering
\* The caller enters begin_rendering (frames follow begin, render*, end).
BeginCall ==
    /\ pc = "idle"
    /\ frame_count < MaxFrames
    /\ pc' = "b_fence"
    /\ UNCHANGED <<thread_count, frame_count, swapchain, depth_image, resolution, fence,
                   sync_data, RenderState, PresentState, LoadState, HostState, recreated,
                   stale_cause, fence_wait_failed>>

\* wait_for_fences: returns when the slot's fence is signaled; an error is
\* logged and begin_rendering goes on.  `faults` tells whether the driver may
\* return errors and stale results in the runs of a specification.
BeginWaitFence(faults) ==
    /\ pc = "b_fence"
    /\ \/ fence[Slot] /\ UNCHANGED fence_wait_failed
       \/ faults /\ fence_wait_failed' = TRUE
    /\ pc' = "b_result"
    /\ UNCHANGED <<thread_count, frame_count, swapchain, depth_image, resolution, fence,
                   sync_data, RenderState, PresentState, LoadState, HostState, recreated,
                   stale_cause>>

\* Mutant of BeginWaitResult: a stale result is marked NotDone, not Ok.
BeginWaitResult_StaleToNotDone ==
    /\ pc = "b_result"
    /\ sync_data[Slot] # "NotDone"
    /\ sync_data' = [sync_data EXCEPT ![Slot] = "NotDone"]
    /\ IF sync_data[Slot] = "OutOfDate"
          THEN stale_cause' = "present" /\ pc' = "b_idle"
          ELSE UNCHANGED stale_cause /\ pc' = "b_acquire"
    /\ UNCHANGED <<thread_count, frame_count, swapchain, depth_image, resolution, fence,
                   RenderState, PresentState, LoadState, HostState, recreated,
                   fence_wait_failed>>

\* The block computing `suboptimal`: wait while the slot's result is NotDone,
\* then OutOfDate becomes Ok (recreate) and anything else becomes NotDone.
BeginWaitResult ==
    /\ pc = "b_result"
    /\ sync_data[Slot] # "NotDone"
    /\ IF sync_data[Slot] = "OutOfDate"
          THEN /\ sync_data' = [sync_data EXCEPT ![Slot] = "Ok"]
               /\ stale_cause' = "present"
               /\ pc' = "b_idle"
          ELSE /\ sync_data' = [sync_data EXCEPT ![Slot] = "NotDone"]
               /\ UNCHANGED stale_cause
               /\ pc' = "b_acquire"
    /\ UNCHANGED <<thread_count, frame_count, swapchain, depth_image, resolution, fence,
                   RenderState, PresentState, LoadState, HostState, recreated,
                   fence_wait_failed>>

\* Swapchain::next: the image indices of a swapchain.
ImageIndices == {0, 1}

\* self.swapchain.next(frame.present_semaphore) and the match on its result.
BeginAcquire(faults) ==
    /\ pc = "b_acquire"
    /\ \/ \E i \in ImageIndices :       \* Ok(false)
            /\ swapchain' = [swapchain EXCEPT !.current_image_index = i]
            /\ pc' = "b_reset"
            /\ UNCHANGED stale_cause
       \/ \E i \in ImageIndices :       \* Ok(true): acquired, suboptimal
            /\ faults
            /\ swapchain.id < MaxSwapchains
            /\ swapchain' = [swapchain EXCEPT !.current_image_index = i]
            /\ pc' = "b_idle"
            /\ stale_cause' = "acquire"
       \/ /\ faults                       \* Err(SUBOPTIMAL_KHR | ERROR_OUT_OF_DATE_KHR)
          /\ swapchain.id < MaxSwapchains
          /\ pc' = "b_idle"
          /\ stale_cause' = "acquire"
          /\ UNCHANGED swapchain
       \/ /\ faults                       \* Err(e) => panic!
          /\ pc' = "panicked"
          /\ UNCHANGED <<swapchain, stale_cause>>
    /\ UNCHANGED <<thread_count, frame_count, depth_image, resolution, fence, sync_data,
                   RenderState, PresentState, LoadState, HostState, recreated,
                   fence_wait_failed>>

\* device_wait_idle().unwrap() of the recreation branch.
BeginWaitIdle ==
    /\ pc = "b_idle"
    /\ \/ gpu_pending = {} /\ pc' = "b_recreate"
       \/ pc' = "panicked"
    /\ UNCHANGED <<thread_count, frame_count, swapchain, depth_image, resolution, fence,
                   sync_data, RenderState, PresentState, LoadState, HostState, recreated,
                   stale_cause, fence_wait_failed>>

\* Swapchain::new(.., Some(&old)), the new depth image, then the recursive
\* self.begin_rendering(camera).
BeginRecreate ==
    /\ pc = "b_recreate"
    /\ \/ /\ swapchain' = SwapchainOf(swapchain.id + 1,
                                       SwapchainNew(surface, SurfaceFormat, resolution))
          /\ depth_image' = depth_image + 1
          /\ recreated' = recreated + 1
          /\ pc' = "b_fence"
       \/ /\ pc' = "panicked"           \* expect / unwrap of a failed creation
          /\ UNCHANGED <<swapchain, depth_image, recreated>>
    /\ UNCHANGED <<thread_count, frame_count, resolution, fence, sync_data, RenderState,
                   PresentState, LoadState, HostState, stale_cause, fence_wait_failed>>

\* The swapchains held by the locals `old` of the begin_rendering activations
\* that have not returned: every recreation of the current call took the
\* swapchain of that moment out of self.swapchain and then called
\* begin_rendering again, so its `old` is dropped (impl Drop for Swapchain:
\* the image views, then the swapchain) when that inner call has returned or
\* unwound.
OldSwapchains ==
    IF pc \in {"b_fence", "b_result", "b_acquire", "b_idle", "b_recreate", "b_reset"}
       THEN {swapchain.id - i : i \in 1 .. recreated}
       ELSE {}

\* Begin(secondary buffer of the slot, ..) as sent to worker w.
BeginMsg(s) == [tag |-> "Begin", cmd |-> s, mesh |-> NULL, material |-> NULL,
                transform |-> NULL]

\* A worker that panicked has dropped its Receiver: a send to it fails.
Disconnected(w) == worker[w].pc = "dead"

\* `for channel in &self.render_channels { channel.send(..).unwrap() }` reaches
\* worker w when no send to a worker before it, or to it, failed.
Delivered(w) == \A v \in 0 .. w : ~Disconnected(v)

\* The channels after that loop sent msg to the workers it reached.
SendAll(msg) ==
    [w \in Workers |-> IF Delivered(w) THEN Append(render_channels[w], msg)
                                       ELSE render_channels[w]]

\* The frame start: reset_fences, the uniform write, the pool resets, the
\* start of the primary buffer and one Begin per worker channel; a failed send
\* panics.
BeginReset ==
    /\ pc = "b_reset"
    /\ \A w \in Workers : Len(render_channels[w]) < ChannelCap
    /\ fence' = [fence EXCEPT ![Slot] = FALSE]
    /\ primary_buffer' = [primary_buffer EXCEPT ![Slot] =
                             [state |-> "recording", cmds |-> <<>>]]
    /\ secondary_buffers' = [secondary_buffers EXCEPT ![Slot] =
                                [w \in Workers |-> EmptyBuffer]]
    /\ render_channels' = SendAll(BeginMsg(Slot))
    /\ begins_sent' = [w \in Workers |->
                          IF Delivered(w) THEN begins_sent[w] + 1 ELSE begins_sent[w]]
    /\ calls' = <<>>
    /\ pc' = IF \A w \in Workers : Delivered(w) THEN "recording" ELSE "panicked"
    /\ recreated' = 0
    /\ stale_cause' = "none"
    /\ fence_wait_failed' = FALSE
    /\ UNCHANGED <<thread_count, frame_count, swapchain, depth_image, resolution,
                   sync_data, render_barrier, barrier_gen, last_mesh, last_material,
                   current_thread, worker, begins_recv, ends_recv, protocol_violation,
                   PresentState, LoadState, HostState>>

\* ------------------------------------------------------------------ render
RenderMsg(mesh, material, transform) ==
    [tag |-> "Render", cmd |-> NULL, mesh |-> mesh, material |-> material,
     transform |-> transform]

\* Mutant of NextThread: the material is not compared.
NextThread_MeshOnly(mesh, material) ==
    IF mesh # last_mesh THEN (current_thread + 1) % thread_count ELSE current_thread

\* Worker index render selects: kept while mesh and material are the ones
\* remembered, advanced round robin otherwise.
NextThread(mesh, material) ==
    IF ~(mesh = last_mesh /\ material = last_material)
       THEN (current_thread + 1) % thread_count
       ELSE current_thread

\* render(mesh, material, transform); the transform of a call is modelled by
\* the position of the call in its frame.  A frame has at most `limit` calls.
\* The send to a worker that is gone panics (expect).
Render(mesh, material, limit) ==
    /\ pc = "recording"
    /\ Len(calls) < limit
    /\ LET t == NextThread(mesh, material)
           transform == Len(calls) + 1
       IN /\ Len(render_channels[t]) < ChannelCap
          /\ current_thread' = t
          /\ last_mesh' = mesh
          /\ last_material' = material
          /\ IF Disconnected(t)
                THEN /\ pc' = "panicked"
                     /\ UNCHANGED <<render_channels, calls>>
                ELSE /\ render_channels' = [render_channels EXCEPT ![t] =
                                    Append(@, RenderMsg(mesh, material, transform))]
                     /\ calls' = Append(calls, [mesh |-> mesh, material |-> material,
                                                thread |-> t])
                     /\ UNCHANGED pc
    /\ UNCHANGED <<thread_count, frame_count, swapchain, depth_image, resolution,
                   fence, sync_data, primary_buffer, secondary_buffers, render_barrier,
                   barrier_gen, worker, begins_sent, begins_recv, ends_recv,
                   protocol_violation, PresentState, LoadState, HostState, recreated,
                   stale_cause, fence_wait_failed>>

\* ------------------------------------------------------------------ barrier
\* Mutant of BarrierArrive: a barrier for thread_count participants.
BarrierArrive_NoOrchestrator(b) ==
    IF b.count + 1 >= thread_count
       THEN [count |-> 0, generation |-> b.generation + 1]
       ELSE [count |-> b.count + 1, generation |-> b.generation]

\* std::sync::Barrier::wait, the arrival: the last of thread_count + 1
\* arrivals opens the next generation.
BarrierArrive(b) ==
    IF b.count + 1 = thread_count + 1
       THEN [count |-> 0, generation |-> b.generation + 1]
       ELSE [count |-> b.count + 1, generation |-> b.generation]

\* ----------------------------------------------------------- end_rendering
EndMsg == [tag |-> "End", cmd |-> NULL, mesh |-> NULL, material |-> NULL,
           transform |-> NULL]

\* End to every channel, then the arrival at render_barrier; a failed send
\* panics before the barrier.
EndSend ==
    /\ pc = "recording"
    /\ \A w \in Workers : Len(render_channels[w]) < ChannelCap
    /\ render_channels' = SendAll(EndMsg)
    /\ IF \A w \in Workers : Delivered(w)
          THEN /\ barrier_gen' = render_barrier.generation
               /\ render_barrier' = BarrierArrive(render_barrier)
               /\ pc' = "e_barrier"
          ELSE /\ pc' = "panicked"
               /\ UNCHANGED <<barrier_gen, render_barrier>>
    /\ UNCHANGED <<thread_count, frame_count, swapchain, depth_image, resolution, fence,
                   sync_data, primary_buffer, secondary_buffers, last_mesh,
                   last_material, current_thread, worker, calls, begins_sent,
                   begins_recv, ends_recv, protocol_violation, PresentState, LoadState,
                   HostState, recreated, stale_cause, fence_wait_failed>>

RECURSIVE Concat(_, _, _)
\* The command lists of the buffers bufs[from], bufs[from + 1], .. in index order.
Concat(bufs, from, n) ==
    IF from >= n THEN <<>> ELSE bufs[from].cmds \o Concat(bufs, from + 1, n)

RECURSIVE ConcatDown(_, _)
ConcatDown(bufs, n) ==
    IF n <= 0 THEN <<>> ELSE bufs[n - 1].cmds \o ConcatDown(bufs, n - 1)

\* Mutant of ExecuteCommands: the last worker's buffer runs first.
ExecuteCommands_Reversed(bufs) == ConcatDown(bufs, thread_count)

\* Order in which cmd_execute_commands runs the secondary buffers of a slot.
ExecuteCommands(bufs) == Concat(bufs, 0, thread_count)

\* Mutant of EndExecute: end_rendering does not wait at the barrier.
EndExecute_NoWait ==
    /\ pc = "e_barrier"
    /\ primary_buffer' = [primary_buffer EXCEPT ![Slot] =
                             [state |-> "executable",
                              cmds |-> ExecuteCommands(secondary_buffers[Slot])]]
    /\ pc' = "e_present"
    /\ UNCHANGED <<thread_count, frame_count, swapchain, depth_image, resolution, fence,
                   sync_data, secondary_buffers, render_channels, render_barrier,
                   barrier_gen, last_mesh, last_material, current_thread, worker, calls,
                   begins_sent, begins_recv, ends_recv, protocol_violation, PresentState,
                   LoadState, HostState, recreated, stale_cause, fence_wait_failed>>

\* render_barrier.wait() returns; the secondary buffers are executed into the
\* primary buffer, which is then ended.
EndExecute ==
    /\ pc = "e_barrier"
    /\ render_barrier.generation # barrier_gen
    /\ primary_buffer' = [primary_buffer EXCEPT ![Slot] =
                             [state |-> "executable",
                              cmds |-> ExecuteCommands(secondary_buffers[Slot])]]
    /\ pc' = "e_present"
    /\ UNCHANGED <<thread_count, frame_count, swapchain, depth_image, resolution, fence,
                   sync_data, secondary_buffers, render_channels, render_barrier,
                   barrier_gen, last_mesh, last_material, current_thread, worker, calls,
                   begins_sent, begins_recv, ends_recv, protocol_violation, PresentState,
                   LoadState, HostState, recreated, stale_cause, fence_wait_failed>>

\* Mutant of PresentDataOf: the fence of the other frame slot is handed over.
PresentDataOf_OtherFence(s) ==
    [render_semaphore |-> GraphicsSemaphore(s),
     present_semaphore |-> PresentSemaphore(s),
     cmd |-> s,
     swapchain |-> swapchain.id,
     image_index |-> swapchain.current_image_index,
     signal_fence |-> (s + 1) % FRAMES_IN_FLIGHT,
     sync_data |-> s]

\* The PresentData end_rendering builds for the slot it ends.
PresentDataOf(s) ==
    [render_semaphore |-> GraphicsSemaphore(s),
     present_semaphore |-> PresentSemaphore(s),
     cmd |-> s,
     swapchain |-> swapchain.id,
     image_index |-> swapchain.current_image_index,
     signal_fence |-> s,
     sync_data |-> s]

\* Mutant of EndPresent: the frame counter is not advanced.
EndPresent_NoIncrement ==
    /\ pc = "e_present"
    /\ \/ /\ present.pc = "recv"
          /\ present' = [PresentIdle EXCEPT !.pc = "submit", !.data = PresentDataOf(Slot)]
          /\ pc' = "idle"
       \/ /\ present.pc = "dead"
          /\ pc' = "panicked"
          /\ UNCHANGED present
    /\ UNCHANGED <<thread_count, frame_count, swapchain, depth_image, resolution, fence,
                   sync_data, RenderState, gpu_pending, LoadState, HostState, recreated,
                   stale_cause, fence_wait_failed>>

\* Mutant of EndPresent: the error of a send to a dead thread is dropped.
EndPresent_IgnoresDead ==
    /\ pc = "e_present"
    /\ \/ /\ present.pc = "recv"
          /\ present' = [PresentIdle EXCEPT !.pc = "submit", !.data = PresentDataOf(Slot)]
       \/ /\ present.pc = "dead"
          /\ UNCHANGED present
    /\ frame_count' = frame_count + 1
    /\ pc' = "idle"
    /\ UNCHANGED <<thread_count, swapchain, depth_image, resolution, fence, sync_data,
                   RenderState, gpu_pending, LoadState, HostState, recreated, stale_cause,
                   fence_wait_failed>>

\* Mutant of EndPresent: a channel with a buffer, the send returns while the
\* presentation thread is still busy with the frame before.
EndPresent_Buffered ==
    /\ pc = "e_present"
    /\ \/ /\ present.pc \in {"recv", "submit", "present", "record"}
          /\ present' = [PresentIdle EXCEPT !.pc = "submit", !.data = PresentDataOf(Slot)]
          /\ frame_count' = frame_count + 1
          /\ pc' = "idle"
       \/ /\ present.pc = "dead"
          /\ pc' = "panicked"
          /\ UNCHANGED <<present, frame_count>>
    /\ UNCHANGED <<thread_count, swapchain, depth_image, resolution, fence, sync_data,
                   RenderState, gpu_pending, LoadState, HostState, recreated, stale_cause,
                   fence_wait_failed>>

\* present_channel.send(..).unwrap() on the zero-capacity channel, then
\* frame_count += 1: the send returns when the presentation thread takes the
\* message, and fails when that thread is gone.
EndPresent ==
    /\ pc = "e_present"
    /\ \/ /\ present.pc = "recv"
          /\ present' = [PresentIdle EXCEPT !.pc = "submit", !.data = PresentDataOf(Slot)]
          /\ frame_count' = frame_count + 1
          /\ pc' = "idle"
       \/ /\ present.pc = "dead"
          /\ pc' = "panicked"
          /\ UNCHANGED <<present, frame_count>>
    /\ UNCHANGED <<thread_count, swapchain, depth_image, resolution, fence, sync_data,
                   RenderState, gpu_pending, LoadState, HostState, recreated, stale_cause,
                   fence_wait_failed>>

\* ------------------------------------------------------ other trait calls
\* Mutant of Resize: the swapchain is rebuilt at once.
Resize_Recreates(res) ==
    /\ InCaller
    /\ resolution' = res
    /\ swapchain' = SwapchainOf(swapchain.id + 1,
                                 SwapchainNew(surface, SurfaceFormat, res))
    /\ depth_image' = depth_image + 1
    /\ UNCHANGED <<thread_count, frame_count, pc, fence, sync_data, RenderState,
                   PresentState, LoadState, HostState, recreated, stale_cause, fence_wait_failed>>

\* resize(width, height)
Resize(res) ==
    /\ InCaller
    /\ resolution' = res
    /\ UNCHANGED <<thread_count, frame_count, pc, swapchain, depth_image, fence,
                   sync_data, RenderState, PresentState, LoadState, HostState, recreated,
                   stale_cause, fence_wait_failed>>

\* Address of the next mesh or material: one not in use.
FreshAddress(used, all) == CHOOSE a \in all \ used : \A b \in all \ used : a <= b

\* A step of a constructor: the call, the GPU object it creates ("none" when
\* it creates none), whether a wrapper owns that object and destroys it when
\* dropped (Buffer, Image), and the objects a scope guard registered by the
\* step destroys when the function is left.
Step(op, creates, owned, guards) ==
    [op |-> op, creates |-> creates, owned |-> owned, guards |-> guards]

\* A call that creates nothing and may fail.
Call(op) == Step(op, "none", TRUE, {})

Ops(steps) == {steps[i].op : i \in DOMAIN steps}

\* Index of the step that fails, Len + 1 when none of the steps does.
FailIndex(steps, fail) ==
    IF \E i \in DOMAIN steps : steps[i].op = fail
       THEN CHOOSE i \in DOMAIN steps : steps[i].op = fail
       ELSE Len(steps) + 1

\* The `?` at step k: the locals are dropped, the guards registered before k
\* run; what is left are the raw handles created before k that no guard covers.
LeakedAt(steps, k) ==
    {steps[i].creates : i \in {j \in 1 .. k - 1 : steps[j].creates # "none"
                                                    /\ ~steps[j].owned}}
        \ UNION {steps[i].guards : i \in 1 .. k - 1}

\* Outcome of a constructor whose step k fails (k = Len + 1: none fails).
Construct(steps, k) ==
    [ok |-> k > Len(steps),
     leaked |-> IF k > Len(steps) THEN {} ELSE LeakedAt(steps, k)]

\* Mesh::new: three Buffers, the one-shot copy, its submission.
MeshSteps ==
    <<Step("mesh_staging_buf", "staging_buffer", TRUE, {}),
      Step("mesh_vertex_buffer", "vertex_buffer", TRUE, {}),
      Step("mesh_index_buffer", "index_buffer", TRUE, {}),
      Call("mesh_begin_command_buffer"),
      Call("mesh_end_command_buffer"),
      Call("mesh_queue_submit"),
      Call("mesh_queue_wait_idle")>>

MeshNew(fail) == Construct(MeshSteps, FailIndex(MeshSteps, fail))

\* Texture::new: decoder, staging Buffer, Image, the one-shot copy, then the
\* image view and the sampler, both raw handles.
TextureSteps ==
    <<Call("texture_open"),
      Call("texture_read_info"),
      Step("texture_staging_buffer", "staging_buffer", TRUE, {}),
      Call("texture_next_frame"),
      Step("texture_image", "image", TRUE, {}),
      Call("texture_begin_command_buffer"),
      Call("texture_end_command_buffer"),
      Call("texture_queue_submit"),
      Call("texture_queue_wait_idle"),
      Step("create_image_view", "image_view", FALSE, {}),
      Step("create_sampler", "sampler", FALSE, {})>>

TextureNew(fail) == Construct(TextureSteps, FailIndex(TextureSteps, fail))

\* An image memory barrier of cmd_pipeline_barrier and a cmd_copy_buffer_to_image
\* with the layout it declares for the image.
ImageBarrier(old_layout, new_layout) ==
    [op |-> "pipeline_barrier", old_layout |-> old_layout, new_layout |-> new_layout]
CopyBufferToImage(dst_image_layout) ==
    [op |-> "copy_buffer_to_image", dst_image_layout |-> dst_image_layout]

\* The commands Texture::new records between begin_command_buffer and
\* end_command_buffer, in source order.
TextureCommands ==
    <<ImageBarrier("UNDEFINED", "TRANSFER_DST_OPTIMAL"),
      ImageBarrier("TRANSFER_DST_OPTIMAL", "SHADER_READ_ONLY_OPTIMAL"),
      CopyBufferToImage("TRANSFER_DST_OPTIMAL")>>

\* What Texture::new has recorded into cmd when it returns: the cmd_* calls
\* cannot fail, so everything once begin_command_buffer succeeded.
TextureRecorded(fail) ==
    IF FailIndex(TextureSteps, fail) > FailIndex(TextureSteps, "texture_begin_command_buffer")
       THEN TextureCommands ELSE <<>>

\* create_pipeline: the two modules go through reflection, read_spv and
\* create_shader_module one after the other; the defer! that destroys the
\* modules is registered after the collect; then the stages, the layout, the
\* cache on first use (CACHE.get_or_try_init) and the pipeline.
PipelineSteps(cache) ==
    <<Call("reflect_vert"),
      Call("read_spv_vert"),
      Step("shader_module_vert", "shader_module_vert", FALSE, {}),
      Call("reflect_frag"),
      Call("read_spv_frag"),
      Step("shader_module_frag", "shader_module_frag", FALSE, {}),
      Step("defer", "none", TRUE, {"shader_module_vert", "shader_module_frag"}),
      Call("shader_stages"),
      Step("create_layout", "pipeline_layout", FALSE, {})>>
    \o (IF cache = "uninit" THEN <<Call("create_pipeline_cache")>> ELSE <<>>)
    \o <<Step("create_graphics_pipelines", "pipeline", FALSE, {})>>

\* load_cache: fs::read of the cache file succeeds.
CacheFileRead(file) == file \in {"valid", "corrupt"}

\* Mutant of create_pipeline: CACHE does not keep what load_cache returned.
create_pipeline_NoCell(fail, cache, file, rejects) ==
    LET steps == PipelineSteps(cache)
        at_cache == FailIndex(steps, "create_pipeline_cache")
        refused == cache = "uninit" /\ CacheFileRead(file) /\ file # "valid" /\ rejects
        k == Min(FailIndex(steps, fail), IF refused THEN at_cache ELSE Len(steps) + 1)
        r == Construct(steps, k)
    IN  [ok |-> r.ok,
         leaked |-> r.leaked,
         failed |-> IF k = FailIndex(steps, fail) /\ ~r.ok THEN fail ELSE "none",
         cache |-> cache,
         load_cache |-> IF cache # "uninit" \/ k < at_cache THEN "none"
                        ELSE IF k = at_cache THEN "Err" ELSE "Ok",
         reached |-> k >= Len(steps)]

\* create_pipeline with the step `fail` failing ("none": no call fails by
\* itself).  `rejects`: the driver returns an error for initial data that no
\* get_pipeline_cache_data produced.  On success the caller owns the pipeline
\* and the layout.  `failed` is the failing call, "none" when there is none
\* or when the driver refused the data of the file.
create_pipeline(fail, cache, file, rejects) ==
    LET steps == PipelineSteps(cache)
        at_cache == FailIndex(steps, "create_pipeline_cache")
        refused == cache = "uninit" /\ CacheFileRead(file) /\ file # "valid" /\ rejects
        k == Min(FailIndex(steps, fail), IF refused THEN at_cache ELSE Len(steps) + 1)
        r == Construct(steps, k)
    IN  [ok |-> r.ok,
         leaked |-> r.leaked,
         failed |-> IF k = FailIndex(steps, fail) /\ ~r.ok THEN fail ELSE "none",
         cache |-> IF cache = "uninit" /\ k > at_cache THEN "live" ELSE cache,
         load_cache |-> IF cache # "uninit" \/ k < at_cache THEN "none"
                        ELSE IF k = at_cache THEN "Err" ELSE "Ok",
         reached |-> k >= Len(steps)]

\* The steps of load_model and load_material that can fail.
ModelFails == {"File::open", "load_obj", "allocate_command_buffers"} \cup Ops(MeshSteps)
MaterialFails(cache) ==
    {"read_vert", "read_frag", "allocate_command_buffers"}
        \cup (Ops(PipelineSteps(cache)) \ {"defer"}) \cup Ops(TextureSteps)

\* load_model: the file, the decoder, the one-shot command buffer, Mesh::new,
\* free_command_buffers whatever Mesh::new returned, then Ok(mesh?).
load_model(fail) ==
    IF fail \in {"File::open", "load_obj", "allocate_command_buffers"}
       THEN [returned |-> "Err", leaked |-> {}, failed |-> fail]
       ELSE [returned |-> IF MeshNew(fail).ok THEN "Ok" ELSE "Err",
             leaked |-> MeshNew(fail).leaked,
             failed |-> IF MeshNew(fail).ok THEN "none" ELSE fail]

\* load_material: the two shader files, create_pipeline, the one-shot command
\* buffer, Texture::new, free_command_buffers, then Ok(Material) with
\* texture.ok(): a failed Texture::new gives a material without texture.
load_material(fail, cache, file, rejects) ==
    LET p == create_pipeline(fail, cache, file, rejects)
        t == TextureNew(fail)
    IN  IF fail \in {"read_vert", "read_frag"}
           THEN [returned |-> "Err", leaked |-> {}, textured |-> FALSE, cache |-> cache,
                 failed |-> fail, load_cache |-> "none", reached |-> FALSE,
                 recorded |-> <<>>]
        ELSE IF ~p.ok
           THEN [returned |-> "Err", leaked |-> p.leaked, textured |-> FALSE,
                 cache |-> p.cache, failed |-> p.failed, load_cache |-> p.load_cache,
                 reached |-> p.reached, recorded |-> <<>>]
        ELSE IF fail = "allocate_command_buffers"
           THEN [returned |-> "Err", leaked |-> {"pipeline", "pipeline_layout"},
                 textured |-> FALSE, cache |-> p.cache, failed |-> fail,
                 load_cache |-> p.load_cache, reached |-> p.reached, recorded |-> <<>>]
        ELSE [returned |-> "Ok", leaked |-> t.leaked, textured |-> t.ok,
              cache |-> p.cache, failed |-> IF t.ok THEN "none" ELSE fail,
              load_cache |-> p.load_cache, reached |-> p.reached,
              recorded |-> TextureRecorded(fail)]

\* The record of a load in load_log.
LoadLog(call, r) ==
    [call |-> call, failed |-> r.failed, returned |-> r.returned, leaked |-> r.leaked]

\* What a load leaves in the state: the injected failure and the leaks are
\* kept only in the runs that trace the loads.
Outcome(trace, r) ==
    [r EXCEPT !.leaked = IF trace THEN @ ELSE {},
              !.failed = IF trace THEN @ ELSE "none"]

\* The same for load_material, with what the call did with CACHE and what
\* Texture::new recorded.
MaterialOutcome(trace, r) ==
    [Outcome(trace, r) EXCEPT !.load_cache = IF trace THEN @ ELSE "none",
                              !.reached = IF trace THEN @ ELSE FALSE,
                              !.recorded = IF trace THEN @ ELSE <<>>]

\* CACHE after a load_material: load_cache created one more pipeline cache
\* when it returned Ok, and a call that got to create_graphics_pipelines
\* passed it the cache CACHE holds, the last one created.
CacheLog(log, r) ==
    LET created == log.created + (IF r.load_cache = "Ok" THEN 1 ELSE 0)
    IN  [created |-> created,
         failed |-> log.failed \/ r.load_cache = "Err",
         used |-> log.used \cup (IF r.reached THEN {created} ELSE {})]

\* The states of the pipeline-cache file a run can start with.
CacheFiles == {"missing", "unreadable", "corrupt", "valid"}

\* The states of the process-wide CACHE.
CacheStates == {"uninit", "live", "destroyed"}

\* The outcomes of load_model, over the step that fails.
ModelOutcomes ==
    [trace \in BOOLEAN |->
        {Outcome(trace, load_model(fail)) : fail \in ModelFails \cup {"none"}}]

\* The outcomes of load_material for a state of CACHE and of its file, over
\* the step that fails and the answer of the driver to foreign cache data.
MaterialOutcomes ==
    [trace \in BOOLEAN |->
        [cache \in CacheStates |->
            [file \in CacheFiles |->
                {MaterialOutcome(trace, load_material(fail, cache, file, rejects)) :
                    fail \in MaterialFails(cache) \cup {"none"},
                    rejects \in BOOLEAN}]]]

\* load_model(path).  `trace`: the runs of the specification keep the
\* outcome of the call in load_log.
LoadModel(trace) ==
    /\ InCaller
    /\ \E o \in ModelOutcomes[trace] :
          LET mesh == FreshAddress(meshes, Meshes)
          IN  /\ o.returned = "Ok" => Cardinality(meshes) < MaxLoads
              /\ meshes' = IF o.returned = "Ok" THEN meshes \cup {mesh} ELSE meshes
              /\ load_log' = IF trace THEN LoadLog("load_model", o)
                                      ELSE load_log
    /\ UNCHANGED <<thread_count, frame_count, pc, swapchain, depth_image, resolution,
                   fence, sync_data, RenderState, PresentState, materials, recreated,
                   stale_cause, fence_wait_failed, drop, textured, pipeline_cache,
                   cache_file, surface, round_trip, game, engines, allocator, cleanup_log, available_parallelism, texture_cmd, cache_log, sync_mutex, sync_condvar>>

\* load_material().
LoadMaterial(trace) ==
    /\ InCaller
    /\ \E o \in MaterialOutcomes[trace][pipeline_cache][cache_file] :
          LET material == FreshAddress(materials, Materials)
          IN  /\ o.returned = "Ok" => Cardinality(materials) < MaxLoads
              /\ materials' = IF o.returned = "Ok" THEN materials \cup {material}
                                                   ELSE materials
              /\ textured' = IF o.returned = "Ok" /\ o.textured
                                THEN textured \cup {material} ELSE textured
              /\ pipeline_cache' = o.cache
              /\ load_log' = IF trace THEN LoadLog("load_material", o)
                                      ELSE load_log
              /\ cache_log' = IF trace THEN CacheLog(cache_log, o) ELSE cache_log
              /\ texture_cmd' = IF trace THEN o.recorded ELSE texture_cmd
    /\ UNCHANGED <<thread_count, frame_count, pc, swapchain, depth_image, resolution,
                   fence, sync_data, RenderState, PresentState, meshes, recreated,
                   stale_cause, fence_wait_failed, drop, cache_file, surface,
                   round_trip, game, engines, allocator, cleanup_log, available_parallelism, sync_mutex, sync_condvar>>

\* wait(): device_wait_idle().unwrap()
Wait ==
    /\ InCaller
    /\ \/ gpu_pending = {} /\ UNCHANGED pc
       \/ pc' = "panicked"
    /\ UNCHANGED <<thread_count, frame_count, swapchain, depth_image, resolution, fence,
                   sync_data, RenderState, PresentState, LoadState, HostState, recreated,
                   stale_cause, fence_wait_failed>>

\* ----------------------------------------------------------- render_thread
Cmd(op, mesh, material, transform) ==
    [op |-> op, mesh |-> mesh, material |-> material, transform |-> transform]

\* lib.rs cull_test: a stub, every draw is visible.
cull_test(mesh, transform) == TRUE

\* Mutant of RecordRender: the pipeline is bound for every draw.
RecordRender_AlwaysBindPipeline(lm, lmat, msg) ==
    (IF msg.mesh # lm THEN <<Cmd("bind_mesh", msg.mesh, NULL, NULL)>> ELSE <<>>)
    \o <<Cmd("bind_pipeline", NULL, msg.material, NULL),
         Cmd("draw", msg.mesh, msg.material, msg.transform)>>

\* Mutant of RecordRender: the mesh is bound for every draw.
RecordRender_AlwaysBindMesh(lm, lmat, msg) ==
    <<Cmd("bind_mesh", msg.mesh, NULL, NULL)>>
    \o (IF msg.material # lmat
           THEN <<Cmd("bind_pipeline", NULL, msg.material, NULL)>> ELSE <<>>)
    \o <<Cmd("draw", msg.mesh, msg.material, msg.transform)>>

\* What the Render arm records for a draw, given the worker's last-bound mesh
\* and material.
RecordRender(lm, lmat, msg) ==
    IF cull_test(msg.mesh, msg.transform)
       THEN (IF msg.mesh # lm
                THEN <<Cmd("bind_mesh", msg.mesh, NULL, NULL)>> ELSE <<>>)
            \o (IF msg.material # lmat
                   THEN <<Cmd("bind_pipeline", NULL, msg.material, NULL)>> ELSE <<>>)
            \o <<Cmd("draw", msg.mesh, msg.material, msg.transform)>>
       ELSE <<>>

\* Mutant of WorkerRecv: the End arm keeps last_mesh and last_material.
WorkerRecv_KeepLast(w) ==
    /\ worker[w].pc = "recv"
    /\ render_channels[w] # <<>>
    /\ LET msg == Head(render_channels[w])
           me == worker[w]
       IN /\ render_channels' = [render_channels EXCEPT ![w] = Tail(@)]
          /\ CASE msg.tag = "Begin" ->
                   /\ worker' = [worker EXCEPT ![w].cmd = msg.cmd]
                   /\ secondary_buffers' = [secondary_buffers EXCEPT ![msg.cmd][w] =
                                               [state |-> "recording", cmds |-> <<>>]]
                   /\ begins_recv' = [begins_recv EXCEPT ![w] = @ + 1]
                   /\ protocol_violation' = (protocol_violation \/ me.cmd # NullCmd)
                   /\ UNCHANGED <<ends_recv, render_barrier>>
               [] msg.tag = "Render" ->
                   /\ worker' = [worker EXCEPT
                                    ![w].last_mesh =
                                        IF cull_test(msg.mesh, msg.transform)
                                           THEN msg.mesh ELSE @,
                                    ![w].last_material =
                                        IF cull_test(msg.mesh, msg.transform)
                                           THEN msg.material ELSE @]
                   /\ IF me.cmd # NullCmd
                         THEN secondary_buffers' =
                                 [secondary_buffers EXCEPT ![me.cmd][w].cmds =
                                     @ \o RecordRender(me.last_mesh, me.last_material,
                                                       msg)]
                         ELSE UNCHANGED secondary_buffers
                   /\ protocol_violation' = (protocol_violation \/ me.cmd = NullCmd)
                   /\ UNCHANGED <<begins_recv, ends_recv, render_barrier>>
               [] msg.tag = "End" ->
                   /\ IF me.cmd # NullCmd
                         THEN secondary_buffers' =
                                 [secondary_buffers EXCEPT ![me.cmd][w].state =
                                     "executable"]
                         ELSE UNCHANGED secondary_buffers
                   /\ worker' = [worker EXCEPT ![w] =
                                    [pc |-> "barrier", cmd |-> NullCmd,
                                     last_mesh |-> me.last_mesh,
                                     last_material |-> me.last_material,
                                     gen |-> render_barrier.generation]]
                   /\ render_barrier' = BarrierArrive(render_barrier)
                   /\ ends_recv' = [ends_recv EXCEPT ![w] = @ + 1]
                   /\ protocol_violation' = (protocol_violation \/ me.cmd = NullCmd)
                   /\ UNCHANGED begins_recv
    /\ UNCHANGED <<thread_count, frame_count, pc, swapchain, depth_image, resolution,
                   fence, sync_data, primary_buffer, barrier_gen, last_mesh,
                   last_material, current_thread, calls, begins_sent, PresentState,
                   LoadState, HostState, recreated, stale_cause, fence_wait_failed>>

\* One iteration of `while let Ok(command) = receiver.recv()`.
WorkerRecv(w) ==
    /\ worker[w].pc = "recv"
    /\ render_channels[w] # <<>>
    /\ LET msg == Head(render_channels[w])
           me == worker[w]
       IN /\ render_channels' = [render_channels EXCEPT ![w] = Tail(@)]
          /\ CASE msg.tag = "Begin" ->
                   /\ worker' = [worker EXCEPT ![w].cmd = msg.cmd]
                   /\ secondary_buffers' = [secondary_buffers EXCEPT ![msg.cmd][w] =
                                               [state |-> "recording", cmds |-> <<>>]]
                   /\ begins_recv' = [begins_recv EXCEPT ![w] = @ + 1]
                   /\ protocol_violation' = (protocol_violation \/ me.cmd # NullCmd)
                   /\ UNCHANGED <<ends_recv, render_barrier>>
               [] msg.tag = "Render" ->
                   /\ worker' = [worker EXCEPT
                                    ![w].last_mesh =
                                        IF cull_test(msg.mesh, msg.transform)
                                           THEN msg.mesh ELSE @,
                                    ![w].last_material =
                                        IF cull_test(msg.mesh, msg.transform)
                                           THEN msg.material ELSE @]
                   /\ IF me.cmd # NullCmd
                         THEN secondary_buffers' =
                                 [secondary_buffers EXCEPT ![me.cmd][w].cmds =
                                     @ \o RecordRender(me.last_mesh, me.last_material,
                                                       msg)]
                         ELSE UNCHANGED secondary_buffers
                   /\ protocol_violation' = (protocol_violation \/ me.cmd = NullCmd)
                   /\ UNCHANGED <<begins_recv, ends_recv, render_barrier>>
               [] msg.tag = "End" ->
                   /\ IF me.cmd # NullCmd
                         THEN secondary_buffers' =
                                 [secondary_buffers EXCEPT ![me.cmd][w].state =
                                     "executable"]
                         ELSE UNCHANGED secondary_buffers
                   /\ worker' = [worker EXCEPT ![w] =
                                    [pc |-> "barrier", cmd |-> NullCmd,
                                     last_mesh |-> NULL, last_material |-> NULL,
                                     gen |-> render_barrier.generation]]
                   /\ render_barrier' = BarrierArrive(render_barrier)
                   /\ ends_recv' = [ends_recv EXCEPT ![w] = @ + 1]
                   /\ protocol_violation' = (protocol_violation \/ me.cmd = NullCmd)
                   /\ UNCHANGED begins_recv
    /\ UNCHANGED <<thread_count, frame_count, pc, swapchain, depth_image, resolution,
                   fence, sync_data, primary_buffer, barrier_gen, last_mesh,
                   last_material, current_thread, calls, begins_sent, PresentState,
                   LoadState, HostState, recreated, stale_cause, fence_wait_failed>>

\* barrier.wait() of the End arm returns.
WorkerLeaveBarrier(w) ==
    /\ worker[w].pc = "barrier"
    /\ render_barrier.generation # worker[w].gen
    /\ worker' = [worker EXCEPT ![w].pc = "recv", ![w].gen = 0]
    /\ UNCHANGED <<thread_count, frame_count, pc, swapchain, depth_image, resolution,
                   fence, sync_data, primary_buffer, secondary_buffers, render_channels,
                   render_barrier, barrier_gen, last_mesh, last_material, current_thread,
                   calls, begins_sent, begins_recv, ends_recv, protocol_violation,
                   PresentState, LoadState, HostState, recreated, stale_cause,
                   fence_wait_failed>>

\* begin_command_buffer(..).unwrap() of the Begin arm or
\* end_command_buffer(..).unwrap() of the End arm fails: the worker panics, its
\* Receiver is dropped with the messages left in the channel, and it never
\* arrives at the barrier.
WorkerFail(w) ==
    /\ worker[w].pc = "recv"
    /\ render_channels[w] # <<>>
    /\ Head(render_channels[w]).tag \in {"Begin", "End"}
    /\ worker' = [worker EXCEPT ![w].pc = "dead"]
    /\ render_channels' = [render_channels EXCEPT ![w] = <<>>]
    /\ UNCHANGED <<thread_count, frame_count, pc, swapchain, depth_image, resolution,
                   fence, sync_data, primary_buffer, secondary_buffers, render_barrier,
                   barrier_gen, last_mesh, last_material, current_thread, calls,
                   begins_sent, begins_recv, ends_recv, protocol_violation,
                   PresentState, LoadState, HostState, recreated, stale_cause,
                   fence_wait_failed>>

\* ----------------------------------------------------- presentation_thread
OrchState == <<thread_count, frame_count, pc, swapchain, depth_image, resolution,
               RenderState, LoadState, HostState, recreated, stale_cause,
               fence_wait_failed>>

\* queue_submit(graphics_queue, .., data.signal_fence): a failure panics.
PresentSubmit(faults) ==
    /\ present.pc = "submit"
    /\ \/ /\ gpu_pending' = gpu_pending \cup {SubmitInfoOf(present.data).fence}
          /\ present' = [present EXCEPT !.pc = "present",
                                        !.queue = Append(@, SubmitInfoOf(present.data))]
       \/ /\ faults
          /\ present' = [present EXCEPT !.pc = "dead"]
          /\ UNCHANGED gpu_pending
    /\ UNCHANGED <<OrchState, fence, sync_data>>

\* queue_present and the match on its result.
PresentQueue(faults) ==
    /\ present.pc = "present"
    /\ \/ present' = [present EXCEPT !.pc = "record", !.suboptimal = FALSE,
                                     !.queue = Append(@, PresentInfoOf(present.data))]
       \/ /\ faults                        \* Ok(true) | Err(ERROR_OUT_OF_DATE_KHR)
          /\ swapchain.id < MaxSwapchains
          /\ present' = [present EXCEPT !.pc = "record", !.suboptimal = TRUE,
                                        !.queue = Append(@, PresentInfoOf(present.data))]
       \/ /\ faults                        \* Err(e) => panic!
          /\ present' = [present EXCEPT !.pc = "dead"]
    /\ UNCHANGED <<OrchState, fence, sync_data, gpu_pending>>

\* Mutant of ResultOf: a stale present is recorded as Ok.
ResultOf_AlwaysOk(suboptimal) == "Ok"

\* The result written under the slot's mutex.
ResultOf(suboptimal) == IF suboptimal THEN "OutOfDate" ELSE "Ok"

\* *lock = ..; notify_one(); back to receiver.recv().
PresentRecord ==
    /\ present.pc = "record"
    /\ sync_data' = [sync_data EXCEPT ![present.data.sync_data] = ResultOf(present.suboptimal)]
    /\ present' = PresentIdle
    /\ UNCHANGED <<OrchState, fence, gpu_pending>>

\* --------------------------------------------------------------------- GPU
\* The GPU finishes the submission made with slot s's fence and signals it.
GpuComplete(s) ==
    /\ s \in gpu_pending
    /\ gpu_pending' = gpu_pending \ {s}
    /\ fence' = [fence EXCEPT ![s] = TRUE]
    /\ UNCHANGED <<OrchState, sync_data, present>>

\* ---------------------------------------------------- impl Drop for Engine
\* Mutant of DropSequence: the frames are destroyed before the workers are
\* stopped.
DropSequence_FramesFirst ==
    <<"wait_idle", "close_present", "join_present", "frames", "close_render",
      "join_render", "depth_image", "swapchain", "allocator", "pipeline_cache", "device">>

\* The statements of Engine::drop, in source order.
DropSequence ==
    <<"wait_idle", "close_present", "join_present", "close_render", "join_render",
      "frames", "depth_image", "swapchain", "allocator", "pipeline_cache", "device">>

\* Everything but pc and the teardown.
EngineState == <<thread_count, frame_count, swapchain, depth_image, resolution, fence,
                 sync_data, RenderState, PresentState, LoadState, recreated,
                 stale_cause, fence_wait_failed>>
HostRest == <<textured, pipeline_cache, cache_file, load_log, surface, round_trip, game, engines, allocator, cleanup_log, available_parallelism, texture_cmd, cache_log,
              sync_mutex, sync_condvar>>

PosOf(step) == CHOOSE i \in DOMAIN DropSequence : DropSequence[i] = step

\* Engine::drop is about to run statement `step`.
DropAt(step) == drop.status = "dropping" /\ DropSequence[drop.pos] = step

\* Engine::drop has run statement `step`.
Passed(step) == drop.status # "alive" /\ drop.pos > PosOf(step)

\* The teardown after the statement it is at.
DropAdvance ==
    [drop EXCEPT !.pos = @ + 1,
                 !.log = Append(@, DropSequence[drop.pos]),
                 !.status = IF drop.pos = Len(DropSequence) THEN "done" ELSE @]

\* A panic inside Engine::drop.
DropPanic == [drop EXCEPT !.status = "panicked"]

\* ManuallyDrop::drop(&mut self.present_channel) has run.
PresentChannelClosed == Passed("close_present")

\* Mutant of RenderChannelsClosed: the senders are dropped after the joins.
RenderChannelsClosed_AfterJoin == Passed("join_render")

\* self.render_channels.clear() has run.
RenderChannelsClosed == Passed("close_render")

\* The Engine is dropped: by its owner between two trait calls, or by the
\* unwinding of a trait call that panicked.
DropCall ==
    /\ drop.status = "alive"
    /\ pc \in {"idle", "recording", "panicked"}
    /\ drop' = [drop EXCEPT !.status = "dropping", !.pos = 1, !.from = pc]
    /\ pc' = "dropped"
    /\ UNCHANGED <<EngineState, HostRest>>

\* self.device.device_wait_idle().unwrap()
DropWaitIdle(faults) ==
    /\ DropAt("wait_idle")
    /\ \/ gpu_pending = {} /\ drop' = DropAdvance
       \/ faults /\ drop' = DropPanic
    /\ UNCHANGED <<pc, EngineState, HostRest>>

\* ManuallyDrop::drop(&mut self.present_channel)
DropClosePresent ==
    /\ DropAt("close_present")
    /\ drop' = DropAdvance
    /\ UNCHANGED <<pc, EngineState, HostRest>>

\* present_thread_handle.join(): returns when the thread has ended; a panic of
\* the thread is logged.
DropJoinPresent ==
    /\ DropAt("join_present")
    /\ present.pc \in {"exited", "dead"}
    /\ drop' = DropAdvance
    /\ UNCHANGED <<pc, EngineState, HostRest>>

\* self.render_channels.clear()
DropCloseRender ==
    /\ DropAt("close_render")
    /\ drop' = DropAdvance
    /\ UNCHANGED <<pc, EngineState, HostRest>>

\* One turn of `while let Some(handle) = self.render_thread_handles.pop()`:
\* the join of the last handle left; the loop ends after the first handle.
DropJoinRender ==
    /\ DropAt("join_render")
    /\ worker[drop.handles - 1].pc \in {"exited", "dead"}
    /\ drop' = IF drop.handles = 1
                  THEN [DropAdvance EXCEPT !.handles = 0]
                  ELSE [drop EXCEPT !.handles = @ - 1]
    /\ UNCHANGED <<pc, EngineState, HostRest>>

\* The utility pool and, for every frame, its pools, semaphores, fence and
\* uniform buffer.
DropFrames ==
    /\ DropAt("frames")
    /\ drop' = DropAdvance
    /\ UNCHANGED <<pc, EngineState, HostRest>>

\* The depth image and its view, the descriptor pool and set layout.
DropDepthImage ==
    /\ DropAt("depth_image")
    /\ drop' = DropAdvance
    /\ UNCHANGED <<pc, EngineState, HostRest>>

\* ManuallyDrop::drop(&mut self.swapchain)
DropSwapchain ==
    /\ DropAt("swapchain")
    /\ drop' = DropAdvance
    /\ UNCHANGED <<pc, EngineState, HostRest>>

\* Addresses of the meshes some Arc<Mesh> keeps alive: the caller's handles
\* and the Render messages in the channels.
LiveMeshes ==
    (meshes \cup UNION {{render_channels[w][i].mesh :
                            i \in 1 .. Len(render_channels[w])} : w \in Workers})
    \ {NULL}

LiveMaterials ==
    (materials \cup UNION {{render_channels[w][i].material :
                               i \in 1 .. Len(render_channels[w])} : w \in Workers})
    \ {NULL}

\* Arc::strong_count(&self.allocator): the Engine's own reference and one per
\* live Buffer or Image (AllocData.allocator): the uniform buffer of every
\* frame, the depth image, the vertex and index buffer of every mesh and the
\* image of every texture.
AllocatorRefs ==
    1 + (IF Passed("frames") THEN 0 ELSE FRAMES_IN_FLIGHT)
      + (IF Passed("depth_image") THEN 0 ELSE 1)
      + 2 * Cardinality(LiveMeshes)
      + Cardinality(LiveMaterials \cap textured)

\* Mutant of DropAllocator: the allocator is destroyed whatever its count.
DropAllocator_Unchecked ==
    /\ DropAt("allocator")
    /\ drop' = DropAdvance
    /\ UNCHANGED <<pc, EngineState, HostRest>>

\* Arc::get_mut(&mut self.allocator): destroy, or the panic "Allocator
\* destroyed while still in use".
DropAllocator ==
    /\ DropAt("allocator")
    /\ drop' = IF AllocatorRefs = 1 THEN DropAdvance ELSE DropPanic
    /\ UNCHANGED <<pc, EngineState, HostRest>>

\* Mutant of cleanup_cache: the cache is destroyed only when it was saved.
cleanup_cache_KeepUnsaved(cache, file, data, write) ==
    IF cache = "uninit"
       THEN [cache |-> cache, file |-> file, calls |-> <<>>]
       ELSE IF data = "Ok" /\ write = "Ok"
               THEN [cache |-> "destroyed", file |-> "valid",
                     calls |-> <<"get_pipeline_cache_data", "fs::write",
                                 "destroy_pipeline_cache">>]
               ELSE [cache |-> cache, file |-> file,
                     calls |-> <<"get_pipeline_cache_data">>]

\* cleanup_cache: nothing when CACHE.get() is None; else the data is read
\* back (`data`: Ok or Err) and, when there is data, written to the file
\* (`write`: Ok, Err before the file was touched, or Err after it was
\* truncated; an Err is logged), and then the cache is destroyed.
cleanup_cache(cache, file, data, write) ==
    IF cache = "uninit"
       THEN [cache |-> cache, file |-> file, calls |-> <<>>]
       ELSE [cache |-> "destroyed",
             file |-> IF data = "Err" \/ write = "Err" THEN file
                      ELSE IF write = "Ok" THEN "valid" ELSE "corrupt",
             calls |-> <<"get_pipeline_cache_data">>
                       \o (IF data = "Ok" THEN <<"fs::write">> ELSE <<>>)
                       \o <<"destroy_pipeline_cache">>]

\* cleanup_cache(&self.device) in Engine::drop; `faults` tells whether the
\* driver and the file system may fail.
DropPipelineCache(faults) ==
    /\ DropAt("pipeline_cache")
    /\ \E data \in (IF faults THEN {"Ok", "Err"} ELSE {"Ok"}),
          write \in (IF faults THEN {"Ok", "Err", "Truncated"} ELSE {"Ok"}) :
          LET r == cleanup_cache(pipeline_cache, cache_file, data, write)
          IN  /\ pipeline_cache' = r.cache
              /\ cache_file' = r.file
              /\ cleanup_log' = cleanup_log \o r.calls
    /\ drop' = DropAdvance
    /\ UNCHANGED <<pc, EngineState, textured, load_log, surface, round_trip, game, engines, allocator,
                   available_parallelism, texture_cmd, cache_log, sync_mutex,
                   sync_condvar>>

\* destroy_device, destroy_surface, destroy_instance
DropDevice ==
    /\ DropAt("device")
    /\ drop' = DropAdvance
    /\ UNCHANGED <<pc, EngineState, HostRest>>

\* receiver.recv() of a render worker returns Err: the channel is empty and
\* its Sender is gone; the loop and the thread end.
WorkerExit(w) ==
    /\ worker[w].pc = "recv"
    /\ render_channels[w] = <<>>
    /\ RenderChannelsClosed
    /\ worker' = [worker EXCEPT ![w].pc = "exited"]
    /\ UNCHANGED <<thread_count, frame_count, pc, swapchain, depth_image, resolution,
                   fence, sync_data, primary_buffer, secondary_buffers, render_channels,
                   render_barrier, barrier_gen, last_mesh, last_material, current_thread,
                   calls, begins_sent, begins_recv, ends_recv, protocol_violation,
                   PresentState, LoadState, HostState, recreated, stale_cause,
                   fence_wait_failed>>

\* receiver.recv() of the presentation thread returns Err.
PresentExit ==
    /\ present.pc = "recv"
    /\ PresentChannelClosed
    /\ present' = [present EXCEPT !.pc = "exited"]
    /\ UNCHANGED <<OrchState, fence, sync_data, gpu_pending>>

\* ------------------------------------------------------------------ client
\* Event::LoopDestroyed: self.world.clear() releases every mesh and material
\* handle of the client.
WorldClear ==
    /\ pc = "idle"
    /\ meshes \cup materials # {}
    /\ meshes' = {}
    /\ materials' = {}
    /\ textured' = {}
    /\ UNCHANGED <<thread_count, frame_count, pc, swapchain, depth_image, resolution,
                   fence, sync_data, RenderState, PresentState, recreated, stale_cause,
                   fence_wait_failed, drop, pipeline_cache, cache_file, load_log,
                   surface, round_trip, game, engines, allocator, cleanup_log, available_parallelism, texture_cmd, cache_log, sync_mutex, sync_condvar>>

Next ==
    \/ BeginCall
    \/ BeginWaitFence(TRUE)
    \/ BeginWaitResult
    \/ BeginAcquire(TRUE)
    \/ BeginWaitIdle
    \/ BeginRecreate
    \/ BeginReset
    \/ \E m \in meshes, mat \in materials : Render(m, mat, MaxDraws)
    \/ EndSend
    \/ EndExecute
    \/ EndPresent
    \/ \E res \in Resolutions : Resize(res)
    \/ LoadModel(FALSE)
    \/ LoadMaterial(FALSE)
    \/ Wait
    \/ \E w \in Workers : WorkerRecv(w)
    \/ \E w \in Workers : WorkerLeaveBarrier(w)
    \/ PresentSubmit(TRUE)
    \/ PresentQueue(TRUE)
    \/ PresentRecord
    \/ \E s \in Slots : GpuComplete(s)

\* The engine as its caller may drive it, with every driver outcome.
Spec == Init /\ [][Next]_vars

\* State of the client after Game::new loaded its models and materials.
InitDraw == InitWith(Meshes, Materials)

NextDraw ==
    \/ BeginCall /\ frame_count < MaxBatchFrames
    \/ BeginWaitFence(FALSE)
    \/ BeginWaitResult
    \/ BeginAcquire(FALSE)
    \/ BeginReset
    \/ \E m \in meshes, mat \in materials : Render(m, mat, MaxBatch)
    \/ EndSend
    \/ EndExecute
    \/ EndPresent
    \/ \E w \in Workers : WorkerRecv(w)
    \/ \E w \in Workers : WorkerLeaveBarrier(w)
    \/ PresentSubmit(FALSE)
    \/ PresentQueue(FALSE)
    \/ PresentRecord
    \/ \E s \in Slots : GpuComplete(s)

\* Frames of draws over loaded meshes and materials, on a driver that
\* reports neither errors nor stale swapchains.
SpecDraw == InitDraw /\ [][NextDraw]_vars

\* Bounds of the teardown specification.
MaxDropFrames == 2

NextDrop ==
    \/ BeginCall /\ frame_count < MaxDropFrames
    \/ BeginWaitFence(FALSE)
    \/ BeginWaitResult
    \/ BeginAcquire(FALSE)
    \/ BeginReset
    \/ \E m \in meshes, mat \in materials : Render(m, mat, MaxDraws)
    \/ EndSend
    \/ EndExecute
    \/ EndPresent
    \/ LoadModel(FALSE)
    \/ LoadMaterial(FALSE)
    \/ WorldClear
    \/ \E w \in Workers : WorkerRecv(w)
    \/ \E w \in Workers : WorkerFail(w)
    \/ \E w \in Workers : WorkerLeaveBarrier(w)
    \/ \E w \in Workers : WorkerExit(w)
    \/ PresentSubmit(TRUE)
    \/ PresentQueue(TRUE)
    \/ PresentRecord
    \/ PresentExit
    \/ \E s \in Slots : GpuComplete(s)
    \/ DropCall
    \/ DropWaitIdle(TRUE)
    \/ DropClosePresent
    \/ DropJoinPresent
    \/ DropCloseRender
    \/ DropJoinRender
    \/ DropFrames
    \/ DropDepthImage
    \/ DropSwapchain
    \/ DropAllocator
    \/ DropPipelineCache(TRUE)
    \/ DropDevice

\* Every thread that can take a step eventually takes one.
FairDrop ==
    /\ \A w \in 0 .. (MaxThreads - 1) :
          WF_vars(w \in Workers /\ (WorkerRecv(w) \/ WorkerFail(w)
                                      \/ WorkerLeaveBarrier(w) \/ WorkerExit(w)))
    /\ WF_vars(PresentSubmit(TRUE) \/ PresentQueue(TRUE) \/ PresentRecord \/ PresentExit)
    /\ WF_vars(\E s \in Slots : GpuComplete(s))
    /\ WF_vars(DropWaitIdle(TRUE) \/ DropClosePresent \/ DropJoinPresent
                \/ DropCloseRender \/ DropJoinRender \/ DropFrames \/ DropDepthImage
                \/ DropSwapchain \/ DropAllocator \/ DropPipelineCache(TRUE)
                \/ DropDevice)

\* The engine from construction to the end of its teardown, with a driver
\* that may fail the calls of the threads and of the teardown.
SpecDrop == Init /\ [][NextDrop]_vars /\ FairDrop

\* ------------------------------------------------------- SpecPresentFail
\* Frames of the specification: the third reads the result of the first.
MaxPresentFrames == 3

\* Frames without draws and the teardown, with a presentation thread whose
\* submission or present may fail and workers that do not.
NextPresentFail ==
    \/ BeginCall /\ frame_count < MaxPresentFrames
    \/ BeginWaitFence(FALSE)
    \/ BeginWaitResult
    \/ BeginAcquire(FALSE)
    \/ BeginWaitIdle
    \/ BeginRecreate
    \/ BeginReset
    \/ EndSend
    \/ EndExecute
    \/ EndPresent
    \/ \E w \in Workers : WorkerRecv(w)
    \/ \E w \in Workers : WorkerLeaveBarrier(w)
    \/ \E w \in Workers : WorkerExit(w)
    \/ PresentSubmit(TRUE)
    \/ PresentQueue(TRUE)
    \/ PresentRecord
    \/ PresentExit
    \/ \E s \in Slots : GpuComplete(s)
    \/ DropCall
    \/ DropWaitIdle(TRUE)
    \/ DropClosePresent
    \/ DropJoinPresent
    \/ DropCloseRender
    \/ DropJoinRender
    \/ DropFrames
    \/ DropDepthImage
    \/ DropSwapchain
    \/ DropAllocator
    \/ DropPipelineCache(TRUE)
    \/ DropDevice

\* Every thread that can take a step eventually takes one: the threads of
\* FairDrop and the orchestrator inside a call of begin_rendering or
\* end_rendering.
FairPresentFail ==
    /\ FairDrop
    /\ WF_vars(BeginWaitFence(FALSE) \/ BeginWaitResult \/ BeginAcquire(FALSE)
                \/ BeginWaitIdle \/ BeginRecreate \/ BeginReset \/ EndSend
                \/ EndExecute \/ EndPresent)

SpecPresentFail == Init /\ [][NextPresentFail]_vars /\ FairPresentFail

\* ================================================================= claims
\* States between a completed begin_rendering and the end of end_rendering.
InFrame == pc \in {"recording", "e_barrier", "e_present"}

\* States inside begin_rendering.
InBegin == pc \in {"b_fence", "b_result", "b_acquire", "b_idle", "b_recreate", "b_reset"}

\* The previous use of slot s is over: nothing of it is with the presentation
\* thread or on the GPU, and its fence is signaled.
SlotFree(s) == fence[s] /\ s \notin gpu_pending /\ present.data.cmd # s

\* C1: frame-fence invariant.  When begin_rendering for a frame i >=
\* FRAMES_IN_FLIGHT is about to reset the slot's fence and command pools, write
\* its uniform buffer and start its primary buffer, the submission of frame
\* i - FRAMES_IN_FLIGHT has been made and has signaled the fence.
C1_FrameFence ==
    (frame_count >= FRAMES_IN_FLIGHT /\ pc = "b_reset") => SlotFree(Slot)

\* C2: protocol completeness.  No worker gets Begin inside a frame or Render /
\* End outside one; every completed begin_rendering has sent exactly one Begin
\* to every worker, retried or not; and when the caller is back outside a
\* frame every worker has taken one Begin and one End per frame and its
\* channel is empty.
C2_ProtocolComplete ==
    /\ ~protocol_violation
    /\ \A w \in Workers :
          /\ pc # "panicked" => begins_sent[w] = frame_count + (IF InFrame THEN 1 ELSE 0)
          /\ begins_recv[w] <= begins_sent[w]
          /\ ends_recv[w] <= begins_recv[w]
          /\ begins_recv[w] <= ends_recv[w] + 1
          /\ (worker[w].cmd # NullCmd) <=> (begins_recv[w] = ends_recv[w] + 1)
          /\ (pc = "idle" \/ InBegin) =>
                /\ render_channels[w] = <<>>
                /\ begins_recv[w] = frame_count
                /\ ends_recv[w] = frame_count

\* C2 witness: a frame that reuses a slot was started by a begin_rendering that
\* recreated the swapchain, and every worker took its Begin.
C2_Witness ==
    /\ pc = "recording"
    /\ frame_count >= FRAMES_IN_FLIGHT
    /\ swapchain.id > 1
    /\ thread_count > 1
    /\ \A w \in Workers : begins_recv[w] = frame_count + 1

\* C3: recovery from a stale acquisition.  After begin_rendering rebuilt the
\* swapchain because the acquisition was suboptimal or out of date, the retried
\* begin_rendering is not left waiting for a presentation result that nothing
\* will report.
C3_StaleAcquireRecovers ==
    ~(/\ pc = "b_result"
      /\ stale_cause = "acquire"
      /\ recreated > 0
      /\ sync_data[Slot] = "NotDone"
      /\ present.data.cmd # Slot)

\* C4: recovery from a stale presentation.  A begin_rendering that finds the
\* slot's result OutOfDate rebuilds swapchain and depth image once, before any
\* Begin or recording of the frame; the stale result is cleared; the retry finds
\* the result Ok, so it does not wait.
C4_StalePresentRecovers ==
    /\ (pc \in {"b_acquire", "b_reset"} \/ InFrame) => sync_data[Slot] = "NotDone"
    /\ (stale_cause = "present" /\ pc \in {"b_idle", "b_recreate"}) =>
          /\ recreated = 0
          /\ sync_data[Slot] = "Ok"
          /\ primary_buffer[Slot].state # "recording"
          /\ \A w \in Workers : begins_sent[w] = frame_count
    /\ (stale_cause = "present" /\ pc \in {"b_fence", "b_result"}) =>
          /\ recreated = 1
          /\ sync_data[Slot] = "Ok"
    /\ (stale_cause = "present" /\ pc \in {"b_acquire", "b_reset"}) => recreated = 1
    /\ (stale_cause = "none" /\ InBegin) => recreated = 0

\* C4 witness: the retry after a stale presentation is about to start the frame.
C4_Witness ==
    /\ pc = "b_reset"
    /\ stale_cause = "present"
    /\ recreated = 1
    /\ frame_count >= FRAMES_IN_FLIGHT

\* C5: resize changes the requested resolution and nothing else; swapchain and
\* depth image are replaced only by the recreation step of begin_rendering,
\* before any Begin of the frame is sent, never inside a frame.
C5_ResizeDeferred ==
    [][/\ resolution' # resolution =>
             UNCHANGED <<thread_count, frame_count, pc, swapchain, depth_image, fence,
                         sync_data, RenderState, PresentState, LoadState, HostState>>
       /\ (swapchain'.id # swapchain.id \/ depth_image' # depth_image) =>
             /\ pc = "b_recreate"
             /\ pc' = "b_fence"
             /\ resolution' = resolution
             /\ \A w \in Workers : begins_sent[w] = frame_count]_vars

\* C5 witness: a frame is being recorded after a resize, on a swapchain rebuilt
\* by begin_rendering.
C5_Witness ==
    /\ pc = "recording"
    /\ resolution # <<800, 600>>
    /\ swapchain.id > 1

\* ------------------------------------------------------- draws of a frame
IsPrefix(a, b) == Len(a) <= Len(b) /\ SubSeq(b, 1, Len(a)) = a

IsDraw(c) == c.op = "draw"
IsPipelineBind(c) == c.op = "bind_pipeline"

\* The transforms of the indexed draws of a command list, in recorded order.
DrawsOf(cmds) ==
    LET d == SelectSeq(cmds, IsDraw) IN [i \in 1 .. Len(d) |-> d[i].transform]

\* The render calls of the current frame that went to worker w, in call order.
AssignedTo(w) ==
    LET sent(i) == calls[i].thread = w
    IN SelectSeq([i \in 1 .. Len(calls) |-> i], sent)

RECURSIVE BlockOrder(_)
\* All calls of worker w, then all calls of worker w + 1, ..
BlockOrder(w) == IF w >= thread_count THEN <<>> ELSE AssignedTo(w) \o BlockOrder(w + 1)

\* C6: draw ordering within a frame.  What a worker has recorded is, in order,
\* the calls render assigned to it; and the ended primary buffer runs the draws
\* of worker 0 as a block, then those of worker 1, and so on.
C6_DrawOrder ==
    InFrame =>
       /\ \A w \in Workers :
             LET buf == secondary_buffers[Slot][w]
             IN /\ IsPrefix(DrawsOf(buf.cmds), AssignedTo(w))
                /\ (pc # "recording" /\ buf.state = "executable") =>
                       DrawsOf(buf.cmds) = AssignedTo(w)
       /\ pc = "e_present" => DrawsOf(primary_buffer[Slot].cmds) = BlockOrder(0)

\* C6 witness: the first call of the frame went to worker 1, the second to
\* worker 0, and the primary buffer has been assembled.
C6_Witness ==
    /\ pc = "e_present"
    /\ Len(calls) = 2
    /\ calls[1].thread = 1
    /\ calls[2].thread = 0
    /\ DrawsOf(primary_buffer[Slot].cmds) = <<2, 1>>

\* C7: round-robin assignment.  A render call sends one Render to one channel:
\* that of the previous call when mesh and material are the remembered ones,
\* the next one round robin otherwise; no other step touches the remembered
\* mesh, material and index; the index is a worker index.
C7_RoundRobin ==
    [][/\ current_thread' \in 0 .. (thread_count - 1)
       /\ IF Len(calls') = Len(calls) + 1
             THEN LET c == calls'[Len(calls')]
                      same == c.mesh = last_mesh /\ c.material = last_material
                  IN /\ c.thread = IF same THEN current_thread
                                   ELSE (current_thread + 1) % thread_count
                     /\ current_thread' = c.thread
                     /\ last_mesh' = c.mesh
                     /\ last_material' = c.material
                     /\ \A w \in Workers :
                           Len(render_channels'[w]) =
                              Len(render_channels[w]) + (IF w = c.thread THEN 1 ELSE 0)
                     /\ LET q == render_channels'[c.thread]
                        IN /\ q[Len(q)].tag = "Render"
                           /\ q[Len(q)].mesh = c.mesh
                           /\ q[Len(q)].material = c.material
             ELSE UNCHANGED <<last_mesh, last_material, current_thread>>]_vars

\* C7 witness: in the second frame two calls went to different workers.
C7_Witness ==
    /\ thread_count = 2
    /\ frame_count = 1
    /\ Len(calls) = 2
    /\ calls[1].thread # calls[2].thread

\* The calls of the frame are sorted by (material, mesh).
SortedCalls ==
    \A i, j \in 1 .. Len(calls) :
       i < j => \/ calls[i].material < calls[j].material
                \/ /\ calls[i].material = calls[j].material
                   /\ calls[i].mesh <= calls[j].mesh

PipelineBinds(cmds) == Len(SelectSeq(cmds, IsPipelineBind))

MaterialsDrawn == {calls[i].material : i \in 1 .. Len(calls)}
MeshesDrawnWith(m) == {calls[i].mesh : i \in {j \in 1 .. Len(calls) : calls[j].material = m}}


RECURSIVE BindsExpected(_)
\* Sum over the materials ms of min(N, meshes drawn with the material).
BindsExpected(ms) ==
    IF ms = {} THEN 0
    ELSE LET m == CHOOSE x \in ms : TRUE
         IN Min(thread_count, Cardinality(MeshesDrawnWith(m))) + BindsExpected(ms \ {m})

\* C8 as stated: for a frame sorted by (material, mesh) the pipeline binds of
\* all workers together number the distinct materials of the frame.
C8_BindsAreMaterials ==
    (pc = "e_present" /\ SortedCalls) =>
        PipelineBinds(primary_buffer[Slot].cmds) = Cardinality(MaterialsDrawn)

\* C8 amended: for a frame sorted by (material, mesh) the pipeline binds of all
\* workers together number, summed over the materials of the frame, the smaller
\* of N and the number of distinct meshes drawn with the material; hence at
\* least the distinct materials and at most the draws.
C8_BindsPerWorkerAndMaterial ==
    (pc = "e_present" /\ SortedCalls) =>
        /\ PipelineBinds(primary_buffer[Slot].cmds) = BindsExpected(MaterialsDrawn)
        /\ PipelineBinds(primary_buffer[Slot].cmds) >= Cardinality(MaterialsDrawn)
        /\ PipelineBinds(primary_buffer[Slot].cmds) <= Len(calls)

\* C8 witness: a sorted frame drew two meshes with one material on two workers;
\* the pipeline was bound twice.
C8_Witness ==
    /\ pc = "e_present"
    /\ SortedCalls
    /\ thread_count = 2
    /\ Cardinality(MaterialsDrawn) = 1
    /\ PipelineBinds(primary_buffer[Slot].cmds) = 2

\* C9: in a run of consecutive render calls with one mesh and one material,
\* every call after the first goes to the worker of the call before it, and
\* that worker records its draw right after the draw of the call before it: no
\* mesh bind and no pipeline bind in between.
C9_RepeatedDrawNoRebind ==
    InFrame =>
       \A i \in 2 .. Len(calls) :
          (calls[i].mesh = calls[i - 1].mesh /\ calls[i].material = calls[i - 1].material) =>
             /\ calls[i].thread = calls[i - 1].thread
             /\ LET cmds == secondary_buffers[Slot][calls[i].thread].cmds
                IN \A p \in 1 .. Len(cmds) :
                      (cmds[p].op = "draw" /\ cmds[p].transform = i) =>
                         /\ p > 1
                         /\ cmds[p - 1].op = "draw"
                         /\ cmds[p - 1].transform = i - 1

\* C9 witness: in the second frame a worker has recorded two draws of one
\* mesh and one material and closed its buffer.
C9_Witness ==
    /\ frame_count = 1
    /\ InFrame
    /\ Len(calls) = 2
    /\ calls[1].mesh = calls[2].mesh
    /\ calls[1].material = calls[2].material
    /\ secondary_buffers[Slot][calls[2].thread].state = "executable"
    /\ DrawsOf(secondary_buffers[Slot][calls[2].thread].cmds) = <<1, 2>>

\* C10: frame_count starts at 0; end_rendering adds exactly 1 when it hands the
\* frame to the presentation thread; no other step changes it, so begin and
\* end of a frame select one slot and the next frame selects another.
C10_FrameCount ==
    /\ frame_count = 0
    /\ [][/\ frame_count' # frame_count =>
                /\ pc = "e_present"
                /\ pc' = "idle"
                /\ frame_count' = frame_count + 1
                /\ frame_count' % FRAMES_IN_FLIGHT # frame_count % FRAMES_IN_FLIGHT
          /\ (pc = "e_present" /\ pc' = "idle") => frame_count' = frame_count + 1]_vars

\* C10 witness: a frame that reused a slot ended, after a swapchain recreation
\* in its begin_rendering, a resize and the loads.
C10_Witness ==
    /\ frame_count > FRAMES_IN_FLIGHT
    /\ pc = "idle"
    /\ swapchain.id > 1
    /\ resolution # <<800, 600>>
    /\ meshes # {}
    /\ materials # {}

\* ------------------------------------------------------------ SpecLoad
InitLoad == InitIn({}, {}, CacheFiles, {DefaultSurface}, {DefaultConfig})

\* Loads with their outcome kept, the release of the handles and the teardown
\* of an Engine that renders no frame.
NextLoad ==
    \/ LoadModel(TRUE)
    \/ LoadMaterial(TRUE)
    \/ WorldClear
    \/ \E w \in Workers : WorkerExit(w)
    \/ PresentExit
    \/ DropCall
    \/ DropWaitIdle(TRUE)
    \/ DropClosePresent
    \/ DropJoinPresent
    \/ DropCloseRender
    \/ DropJoinRender
    \/ DropFrames
    \/ DropDepthImage
    \/ DropSwapchain
    \/ DropAllocator
    \/ DropPipelineCache(TRUE)
    \/ DropDevice

SpecLoad == InitLoad /\ [][NextLoad]_vars

\* --------------------------------------------------------- SpecProcess
\* The Engines one process creates, one after the other.
MaxEngines == 2

\* create_rendering_engine() after the previous Engine was dropped: Engine::new
\* builds every field anew.  The statics of the process are not the Engine's:
\* CACHE keeps what it held, the handle cleanup_cache destroyed included,
\* since nothing takes a value out of a OnceCell behind a shared reference.
EngineNew ==
    /\ drop.status = "done"
    /\ engines < MaxEngines
    /\ engines' = engines + 1
    /\ frame_count' = 0
    /\ pc' = "idle"
    /\ swapchain' = SwapchainOf(1, create_swapchain(surface, SurfaceFormat, <<800, 600>>))
    /\ depth_image' = 1
    /\ resolution' = <<800, 600>>
    /\ fence' = [s \in Slots |-> TRUE]
    /\ sync_data' = [s \in Slots |-> InitialRenderResult]
    /\ primary_buffer' = [s \in Slots |-> EmptyBuffer]
    /\ secondary_buffers' = [s \in Slots |-> [w \in Workers |-> EmptyBuffer]]
    /\ render_channels' = [w \in Workers |-> <<>>]
    /\ render_barrier' = [count |-> 0, generation |-> 0]
    /\ barrier_gen' = 0
    /\ last_mesh' = NULL
    /\ last_material' = NULL
    /\ current_thread' = 0
    /\ worker' = [w \in Workers |->
                     [pc |-> "recv", cmd |-> NullCmd, last_mesh |-> NULL,
                      last_material |-> NULL, gen |-> 0]]
    /\ present' = PresentIdle
    /\ gpu_pending' = {}
    /\ calls' = <<>>
    /\ begins_sent' = [w \in Workers |-> 0]
    /\ begins_recv' = [w \in Workers |-> 0]
    /\ ends_recv' = [w \in Workers |-> 0]
    /\ protocol_violation' = FALSE
    /\ recreated' = 0
    /\ stale_cause' = "none"
    /\ fence_wait_failed' = FALSE
    /\ drop' = [status |-> "alive", pos |-> 0, from |-> "none",
                handles |-> thread_count, log |-> <<>>]
    /\ allocator' = InitialAllocator
    /\ sync_condvar' = [s \in Slots |-> "none"]
    /\ sync_mutex' = [s \in Slots |-> "none"]
    /\ UNCHANGED <<thread_count, available_parallelism, surface, LoadState, textured,
                   pipeline_cache, cache_file, load_log, cache_log, cleanup_log,
                   texture_cmd, round_trip, game>>

InitProcess == InitIn({}, {}, {"missing", "valid"}, {DefaultSurface}, {DefaultConfig})

\* Engines created and dropped in turn, each loading materials and releasing
\* them before its teardown.
NextProcess ==
    \/ LoadMaterial(TRUE)
    \/ WorldClear
    \/ \E w \in Workers : WorkerExit(w)
    \/ PresentExit
    \/ DropCall
    \/ DropWaitIdle(FALSE)
    \/ DropClosePresent
    \/ DropJoinPresent
    \/ DropCloseRender
    \/ DropJoinRender
    \/ DropFrames
    \/ DropDepthImage
    \/ DropSwapchain
    \/ DropAllocator
    \/ DropPipelineCache(TRUE)
    \/ DropDevice
    \/ EngineNew

SpecProcess == InitProcess /\ [][NextProcess]_vars

\* ----------------------------------------------------------- SpecClient
\* Ticks of the client (MainEventsCleared events that run Game::tick).
MaxTicks == 2

\* Everything but the client and the handles its world holds.
GameRest == <<thread_count, frame_count, pc, swapchain, depth_image, resolution, fence,
              sync_data, RenderState, PresentState, recreated, stale_cause,
              fence_wait_failed, drop, pipeline_cache, cache_file, load_log, surface,
              round_trip, engines, allocator, cleanup_log, available_parallelism,
              texture_cmd, cache_log, sync_mutex, sync_condvar>>

\* An entity of the world and the components it has (NULL: none).
Entity(mesh, material, transform) ==
    [mesh |-> mesh, material |-> material, transform |-> transform]

\* The world of Game::new: two entities that share the mesh and the material
\* loaded, each with its own transform, until World::clear removes them.
World ==
    IF meshes = {} \/ materials = {} THEN <<>>
    ELSE LET mesh == CHOOSE m \in meshes : TRUE
             material == CHOOSE m \in materials : TRUE
         IN  <<Entity(mesh, material, 1), Entity(mesh, material, 2)>>

\* (&mesh, &material, &transform).iter(): the entities with the three
\* components.
HasAll(e) == e.mesh # NULL /\ e.material # NULL /\ e.transform # NULL
RenderList == SelectSeq(World, HasAll)

\* A step of the client alone.
GameStep(from, to) ==
    /\ game.pc = from
    /\ game' = [game EXCEPT !.pc = to]
    /\ UNCHANGED <<GameRest, LoadState, textured>>

\* Game::new: load_model and load_material, each unwrapped.
GameLoadModel == game.pc = "new" /\ meshes = {} /\ LoadModel(FALSE)
GameLoadMaterial == game.pc = "new" /\ meshes # {} /\ materials = {} /\ LoadMaterial(FALSE)
GameNew == meshes # {} /\ materials # {} /\ GameStep("new", "events")

\* Event::Suspended and Event::Resumed.
Visible(v) ==
    /\ game.pc = "events"
    /\ game.visible # v
    /\ game' = [game EXCEPT !.visible = v]
    /\ UNCHANGED <<GameRest, LoadState, textured>>

\* WindowEvent::Resized(size): a new Camera and resize().
Resized(res) == game.pc = "events" /\ Resize(res)

\* WindowEvent::CloseRequested: ControlFlow::Exit.
CloseRequested == GameStep("events", "exit")

\* Mutant of MainEventsCleared: the tick runs whether the window is visible
\* or not.
MainEventsCleared_Hidden ==
    /\ game.pc = "events"
    /\ frame_count < MaxTicks
    /\ game' = [game EXCEPT !.pc = "begin", !.frame = frame_count]
    /\ UNCHANGED <<GameRest, LoadState, textured>>

\* Event::MainEventsCleared: `if self.visible { self.tick(delta) .. }`, up to
\* the call of begin_rendering.
MainEventsCleared ==
    /\ game.pc = "events"
    /\ game.visible
    /\ frame_count < MaxTicks
    /\ game' = [game EXCEPT !.pc = "begin", !.frame = frame_count]
    /\ UNCHANGED <<GameRest, LoadState, textured>>

\* Game::tick: begin_rendering, the loop over the view, end_rendering.
TickBegin == game.pc = "begin" /\ BeginCall
TickBegun == pc = "recording" /\ GameStep("begin", "render")
TickRender ==
    /\ game.pc = "render"
    /\ Len(calls) < Len(RenderList)
    /\ LET e == RenderList[Len(calls) + 1]
       IN  Render(e.mesh, e.material, Len(RenderList))
TickEnd == game.pc = "render" /\ Len(calls) = Len(RenderList) /\ EndSend
TickDone == pc = "idle" /\ GameStep("render", "events")

\* Event::LoopDestroyed: visible = false, wait(), world.clear().
LoopDestroyed ==
    /\ game.pc = "exit"
    /\ game' = [game EXCEPT !.pc = "wait", !.visible = FALSE]
    /\ UNCHANGED <<GameRest, LoadState, textured>>
LoopWait == game.pc = "wait" /\ Wait
LoopWaited == pc = "idle" /\ gpu_pending = {} /\ GameStep("wait", "clear")
LoopClear == game.pc = "clear" /\ WorldClear

\* Mutant of GameDrop: rendering_engine is declared, and so dropped, before
\* world.
GameDrop_EngineFirst ==
    /\ \/ game.pc = "clear" /\ World = <<>>
       \/ game.pc \notin {"new", "dropped"} /\ pc = "panicked"
    /\ game' = [game EXCEPT !.pc = "dropped"]
    /\ UNCHANGED <<GameRest, LoadState, textured>>

\* The Game goes out of scope, after the last event or by the unwinding of a
\* panic of one of its calls: its fields are dropped in the order of their
\* declaration, world (and with it every handle still in it) before
\* rendering_engine.
GameDrop ==
    /\ \/ game.pc = "clear" /\ World = <<>>
       \/ game.pc \notin {"new", "dropped"} /\ pc = "panicked"
    /\ game' = [game EXCEPT !.pc = "dropped"]
    /\ meshes' = {}
    /\ materials' = {}
    /\ textured' = {}
    /\ UNCHANGED GameRest

\* Drop of the Box<Engine> of the Game.
EngineDrop == game.pc = "dropped" /\ DropCall

InitClient == Init

NextClient ==
    \/ GameLoadModel
    \/ GameLoadMaterial
    \/ GameNew
    \/ \E v \in BOOLEAN : Visible(v)
    \/ \E res \in Resolutions : Resized(res)
    \/ CloseRequested
    \/ MainEventsCleared
    \/ TickBegin
    \/ TickBegun
    \/ TickRender
    \/ TickEnd
    \/ TickDone
    \/ LoopDestroyed
    \/ LoopWait
    \/ LoopWaited
    \/ LoopClear
    \/ GameDrop
    \/ EngineDrop
    \/ BeginWaitFence(TRUE)
    \/ BeginWaitResult
    \/ BeginAcquire(TRUE)
    \/ BeginWaitIdle
    \/ BeginRecreate
    \/ BeginReset
    \/ EndExecute
    \/ EndPresent
    \/ \E w \in Workers : WorkerRecv(w)
    \/ \E w \in Workers : WorkerLeaveBarrier(w)
    \/ \E w \in Workers : WorkerExit(w)
    \/ PresentSubmit(TRUE)
    \/ PresentQueue(TRUE)
    \/ PresentRecord
    \/ PresentExit
    \/ \E s \in Slots : GpuComplete(s)
    \/ DropWaitIdle(TRUE)
    \/ DropClosePresent
    \/ DropJoinPresent
    \/ DropCloseRender
    \/ DropJoinRender
    \/ DropFrames
    \/ DropDepthImage
    \/ DropSwapchain
    \/ DropAllocator
    \/ DropPipelineCache(TRUE)
    \/ DropDevice

\* The client from Game::new to the end of the teardown of its Engine, on a
\* driver that may fail.
SpecClient == InitClient /\ [][NextClient]_vars

\* ------------------------------------------------------------ SpecSwap
\* Surface capabilities: minImageCount, maxImageCount (0: no limit) and the
\* current extent, which is a window size or the undefined extent.
Surfaces ==
    {[min_image_count |-> lo, max_image_count |-> hi, current_extent |-> e] :
        lo \in 1 .. MaxImages - 1,
        hi \in {0} \cup 1 .. MaxImages,
        e \in Resolutions \cup {<<U32Max, U32Max>>}}
        \ {c \in [min_image_count : 1 .. MaxImages, max_image_count : 0 .. MaxImages,
                  current_extent : Resolutions \cup {<<U32Max, U32Max>>}] :
              c.max_image_count # 0 /\ c.max_image_count < c.min_image_count}

\* get_physical_device_surface_capabilities answers differently from now on:
\* the window was resized or moved to another display.
SurfaceChange ==
    /\ \E c \in Surfaces : c # surface /\ surface' = c
    /\ UNCHANGED <<thread_count, frame_count, pc, swapchain, depth_image, resolution,
                   fence, sync_data, RenderState, PresentState, LoadState, drop,
                   textured, pipeline_cache, cache_file, load_log, round_trip, game, engines, allocator, cleanup_log, available_parallelism, texture_cmd, cache_log, sync_condvar, sync_mutex,
                   recreated, stale_cause, fence_wait_failed>>

InitSwap == InitIn({}, {}, {"missing"}, Surfaces, {DefaultConfig})

\* The start of frames on a surface of any capabilities, with resizes.
NextSwap ==
    \/ BeginCall
    \/ BeginWaitFence(FALSE)
    \/ BeginWaitResult
    \/ BeginAcquire(TRUE)
    \/ BeginWaitIdle
    \/ BeginRecreate
    \/ BeginReset
    \/ \E res \in Resolutions : Resize(res)
    \/ SurfaceChange

SpecSwap == InitSwap /\ [][NextSwap]_vars

\* ---------------------------------------------------------- SpecConfig
\* let string = serde_yaml::to_string(&cfg).expect(..)
Serialize ==
    /\ round_trip.pc = "start"
    /\ round_trip' = [round_trip EXCEPT !.pc = "serialized",
                                        !.string = to_string(round_trip.cfg)]
    /\ UNCHANGED <<thread_count, frame_count, pc, swapchain, depth_image, resolution,
                   fence, sync_data, RenderState, PresentState, LoadState, drop,
                   textured, pipeline_cache, cache_file, load_log, surface, sync_mutex, sync_condvar, cache_log, texture_cmd, available_parallelism, cleanup_log, allocator, engines, game, recreated,
                   stale_cause, fence_wait_failed>>

\* let result: Config = serde_yaml::from_str(&string).expect(..)
Deserialize ==
    /\ round_trip.pc = "serialized"
    /\ round_trip' = [round_trip EXCEPT !.pc = "done",
                                        !.result = from_str(round_trip.string)]
    /\ UNCHANGED <<thread_count, frame_count, pc, swapchain, depth_image, resolution,
                   fence, sync_data, RenderState, PresentState, LoadState, drop,
                   textured, pipeline_cache, cache_file, load_log, surface, sync_mutex, sync_condvar, cache_log, texture_cmd, available_parallelism, cleanup_log, allocator, engines, game, recreated,
                   stale_cause, fence_wait_failed>>

InitConfig == InitIn({}, {}, {"missing"}, {DefaultSurface}, Configs)

\* The serialization test on any Config.
NextConfig == Serialize \/ Deserialize

SpecConfig == InitConfig /\ [][NextConfig]_vars

\* ------------------------------------------------------------- SpecNew
\* Engine::new on a surface of any capabilities.
InitNew == InitIn({}, {}, {"missing"}, Surfaces, {DefaultConfig})

\* The start of frames on the surface and with the resolution Engine::new
\* found.
NextNew ==
    \/ BeginCall
    \/ BeginWaitFence(FALSE)
    \/ BeginWaitResult
    \/ BeginAcquire(TRUE)
    \/ BeginWaitIdle
    \/ BeginRecreate
    \/ BeginReset

SpecNew == InitNew /\ [][NextNew]_vars

\* ----------------------------------------------------------- SpecAlloc
\* Everything but the allocator.
AllocRest == <<thread_count, frame_count, pc, swapchain, depth_image, resolution, fence,
               sync_data, RenderState, PresentState, LoadState, recreated, stale_cause,
               fence_wait_failed, drop, textured, pipeline_cache, cache_file, load_log,
               surface, round_trip, game, engines, cleanup_log, available_parallelism, texture_cmd,
               cache_log, sync_mutex, sync_condvar>>

\* The caller clones the Arc (self.allocator.clone(), allocator.clone()) and
\* passes it to Buffer::new, Image::new or GpuObject::new: the handle h is
\* under construction.
HandleClone(h, kind) ==
    /\ allocator.handle[h].state = "none"
    /\ \A g \in Handles : g < h => allocator.handle[g].state # "none"
    /\ allocator' = [allocator EXCEPT !.strong = @ + 1,
                                      !.handle[h] = [kind |-> kind, state |-> "new",
                                                     destroys |-> 0]]
    /\ UNCHANGED AllocRest

\* Mutant of Created: the Arc of a creation that failed is not released.
Created_LeakOnErr(a, h, ok) ==
    IF ok THEN [a EXCEPT !.allocations = @ \cup {h}, !.handle[h].state = "live"]
          ELSE [a EXCEPT !.handle[h].state = "failed"]

\* allocator.create_buffer(..)? / allocator.create_image(..)?: Ok makes the
\* handle, which keeps the Arc in its AllocData; on Err the `?` returns and
\* the Arc, a parameter, is dropped.
Created(a, h, ok) ==
    IF ok THEN [a EXCEPT !.allocations = @ \cup {h}, !.handle[h].state = "live"]
          ELSE [a EXCEPT !.strong = @ - 1, !.handle[h].state = "failed"]

\* Buffer::new, Image::new, GpuObject::new (which calls Buffer::new).
HandleCreate(h) ==
    /\ allocator.handle[h].state = "new"
    /\ \E ok \in BOOLEAN : allocator' = Created(allocator, h, ok)
    /\ UNCHANGED AllocRest

\* Mutant of Destroyed: the memory is not returned.
Destroyed_Forgotten(a, h) ==
    [a EXCEPT !.handle[h].state = "dropping"]

\* The body of Drop::drop of Image and of Buffer: destroy_image /
\* destroy_buffer returns the allocation to the allocator.
Destroyed(a, h) ==
    [a EXCEPT !.allocations = @ \ {h},
              !.handle[h].state = "dropping",
              !.handle[h].destroys = @ + 1]

\* drop of a Buffer, an Image or a GpuObject (whose field is a Buffer), on
\* whichever thread holds it: first the body of Drop::drop.
HandleDestroy(h) ==
    /\ allocator.handle[h].state = "live"
    /\ allocator' = Destroyed(allocator, h)
    /\ UNCHANGED AllocRest

\* Then the fields are dropped: AllocData.allocator releases the reference.
HandleRelease(h) ==
    /\ allocator.handle[h].state = "dropping"
    /\ allocator' = [allocator EXCEPT !.strong = @ - 1, !.handle[h].state = "gone"]
    /\ UNCHANGED AllocRest

InitAlloc == Init

\* Handles made and dropped in any order and on any thread.
NextAlloc ==
    \/ \E h \in Handles, kind \in {"Buffer", "Image", "GpuObject"} : HandleClone(h, kind)
    \/ \E h \in Handles : HandleCreate(h)
    \/ \E h \in Handles : HandleDestroy(h)
    \/ \E h \in Handles : HandleRelease(h)

SpecAlloc == InitAlloc /\ [][NextAlloc]_vars

\* ------------------------------------------------------------ SpecSize
\* Engine::new on a machine of any parallelism.
InitSize == InitOn(Parallelisms, {}, {}, {"missing"}, {DefaultSurface}, {DefaultConfig})

\* Frames without draws, on a driver that reports neither errors nor stale
\* swapchains: the threads and the barrier Engine::new sized.
NextSize ==
    \/ BeginCall
    \/ BeginWaitFence(FALSE)
    \/ BeginWaitResult
    \/ BeginAcquire(FALSE)
    \/ BeginReset
    \/ EndSend
    \/ EndExecute
    \/ EndPresent
    \/ \E w \in Workers : WorkerRecv(w)
    \/ \E w \in Workers : WorkerLeaveBarrier(w)
    \/ PresentSubmit(FALSE)
    \/ PresentQueue(FALSE)
    \/ PresentRecord
    \/ \E s \in Slots : GpuComplete(s)

SpecSize == InitSize /\ [][NextSize]_vars

\* ------------------------------------------- the mutex and condition variable
\* The host state but the mutexes and the condition variables of the slots.
SyncRest == <<drop, textured, pipeline_cache, cache_file, load_log, surface, round_trip, game, engines, allocator, cleanup_log, available_parallelism, texture_cmd, cache_log>>

\* What the steps of begin_rendering's wait block leave alone.
BeginSyncRest == <<thread_count, frame_count, swapchain, depth_image, resolution, fence,
                   RenderState, PresentState, LoadState, SyncRest, recreated,
                   fence_wait_failed>>

\* What the steps of the presentation thread's write leave alone.
PresentSyncRest == <<thread_count, frame_count, pc, swapchain, depth_image, resolution,
                     RenderState, LoadState, SyncRest, recreated, stale_cause,
                     fence_wait_failed, fence, gpu_pending>>

\* States of begin_rendering inside the block that computes `suboptimal`.
InWaitBlock == pc \in {"b_result", "b_locked", "b_parked"}

\* let mut lock = frame.sync_data.0.lock()
BeginLockResult ==
    /\ pc = "b_result"
    /\ sync_mutex[Slot] = "none"
    /\ sync_mutex' = [sync_mutex EXCEPT ![Slot] = "begin"]
    /\ pc' = "b_locked"
    /\ UNCHANGED <<BeginSyncRest, sync_data, sync_condvar, stale_cause>>

\* wait_while(&mut lock, |e| *e == NotDone) and the if that follows it.  With
\* the result NotDone, Condvar::wait unlocks the mutex and parks the thread in
\* one step; a parked thread that was notified takes the mutex again and the
\* condition is evaluated again; otherwise the result is read and reset, and
\* the guard is dropped at the end of the block.
BeginWaitWhile ==
    /\ pc \in {"b_locked", "b_parked"}
    /\ IF pc = "b_parked"
          THEN /\ sync_condvar[Slot] = "notified"
               /\ sync_mutex[Slot] = "none"
               /\ sync_mutex' = [sync_mutex EXCEPT ![Slot] = "begin"]
               /\ sync_condvar' = [sync_condvar EXCEPT ![Slot] = "none"]
               /\ pc' = "b_locked"
               /\ UNCHANGED <<sync_data, stale_cause>>
          ELSE IF sync_data[Slot] = "NotDone"
          THEN /\ sync_mutex' = [sync_mutex EXCEPT ![Slot] = "none"]
               /\ sync_condvar' = [sync_condvar EXCEPT ![Slot] = "parked"]
               /\ pc' = "b_parked"
               /\ UNCHANGED <<sync_data, stale_cause>>
          ELSE /\ sync_data' = [sync_data EXCEPT ![Slot] =
                                   IF @ = "OutOfDate" THEN "Ok" ELSE "NotDone"]
               /\ stale_cause' = IF sync_data[Slot] = "OutOfDate" THEN "present"
                                                                  ELSE stale_cause
               /\ pc' = IF sync_data[Slot] = "OutOfDate" THEN "b_idle" ELSE "b_acquire"
               /\ sync_mutex' = [sync_mutex EXCEPT ![Slot] = "none"]
               /\ UNCHANGED sync_condvar
    /\ UNCHANGED BeginSyncRest

\* let mut lock = data.sync_data.0.lock()
PresentLock ==
    /\ present.pc = "record"
    /\ sync_mutex[present.data.sync_data] = "none"
    /\ sync_mutex' = [sync_mutex EXCEPT ![present.data.sync_data] = "present"]
    /\ present' = [present EXCEPT !.pc = "record_locked"]
    /\ UNCHANGED <<PresentSyncRest, sync_data, sync_condvar>>

\* Mutant of PresentWrite: the result goes to the other slot.
PresentWrite_OtherSlot ==
    /\ present.pc = "record_locked"
    /\ sync_data' = [sync_data EXCEPT ![(present.data.sync_data + 1) % FRAMES_IN_FLIGHT] =
                         ResultOf(present.suboptimal)]
    /\ sync_mutex' = [sync_mutex EXCEPT ![present.data.sync_data] = "none"]
    /\ present' = [present EXCEPT !.pc = "notify"]
    /\ UNCHANGED <<PresentSyncRest, sync_condvar>>

\* *lock = ..; the guard is dropped at the end of the block.
PresentWrite ==
    /\ present.pc = "record_locked"
    /\ sync_data' = [sync_data EXCEPT ![present.data.sync_data] = ResultOf(present.suboptimal)]
    /\ sync_mutex' = [sync_mutex EXCEPT ![present.data.sync_data] = "none"]
    /\ present' = [present EXCEPT !.pc = "notify"]
    /\ UNCHANGED <<PresentSyncRest, sync_condvar>>

\* data.sync_data.1.notify_one(): a parked thread is woken, and nothing
\* happens when none is parked; back to receiver.recv().
PresentNotify ==
    /\ present.pc = "notify"
    /\ sync_condvar' = [sync_condvar EXCEPT ![present.data.sync_data] =
                            IF @ = "parked" THEN "notified" ELSE @]
    /\ present' = PresentIdle
    /\ UNCHANGED <<PresentSyncRest, sync_data, sync_mutex>>

\* The frame loop with the steps of the mutex and the condition variable.
NextSync ==
    \/ BeginCall
    \/ BeginWaitFence(FALSE)
    \/ BeginLockResult
    \/ BeginWaitWhile
    \/ BeginAcquire(TRUE)
    \/ BeginWaitIdle
    \/ BeginRecreate
    \/ BeginReset
    \/ EndSend
    \/ EndExecute
    \/ EndPresent
    \/ \E w \in Workers : WorkerRecv(w)
    \/ \E w \in Workers : WorkerLeaveBarrier(w)
    \/ PresentSubmit(FALSE)
    \/ PresentQueue(TRUE)
    \/ PresentLock
    \/ PresentWrite
    \/ PresentNotify
    \/ \E s \in Slots : GpuComplete(s)

\* The orchestrator inside the wait block and the presentation thread past
\* queue_present keep running.
FairSync ==
    /\ WF_vars(BeginLockResult \/ BeginWaitWhile)
    /\ WF_vars(PresentLock \/ PresentWrite \/ PresentNotify)

SpecSync == Init /\ [][NextSync]_vars /\ FairSync

\* Position of entry e in the teardown log, 0 when it is not there.
LogPos(e) ==
    IF \E i \in DOMAIN drop.log : drop.log[i] = e
       THEN CHOOSE i \in DOMAIN drop.log : drop.log[i] = e
       ELSE 0

\* Number of times e is in the teardown log.
LogCount(e) == Cardinality({i \in DOMAIN drop.log : drop.log[i] = e})

\* If b was done, a was done before it.
Before(a, b) == LogPos(b) # 0 => (LogPos(a) # 0 /\ LogPos(a) < LogPos(b))

ThreadsEnded ==
    /\ present.pc \in {"exited", "dead"}
    /\ \A w \in Workers : worker[w].pc \in {"exited", "dead"}

\* C11: teardown order.  Engine::drop waits for the device, then stops and
\* joins the presentation thread and every render worker, then destroys the
\* resources of the frames (with their uniform buffers) and the depth image,
\* then the swapchain, and only then the allocator; every step is done once.
C11_TeardownOrder ==
    /\ Before("wait_idle", "close_present")
    /\ Before("close_present", "join_present")
    /\ Before("join_present", "frames")
    /\ Before("close_render", "join_render")
    /\ Before("join_render", "frames")
    /\ LogPos("frames") # 0 => ThreadsEnded
    /\ Before("frames", "swapchain")
    /\ Before("frames", "allocator")
    /\ Before("depth_image", "allocator")
    /\ Before("swapchain", "allocator")
    /\ \A i \in DOMAIN DropSequence : LogCount(DropSequence[i]) <= 1

C11_Witness ==
    /\ drop.status = "done"
    /\ drop.from = "recording"
    /\ thread_count = 2
    /\ frame_count >= 1

\* The client still holds a mesh or a textured material: a Buffer or Image
\* of the allocator is alive outside the Engine.
HandlesAlive == meshes # {} \/ (materials \cap textured) # {}

\* C12: a leak is fatal.  When Engine::drop reaches the allocator while a
\* buffer or image of it is alive, the drop panics there and the allocator is
\* not destroyed; with none alive the allocator is destroyed, once.
C12_LeakIsFatal ==
    /\ LogPos("allocator") # 0 => ~HandlesAlive
    /\ LogCount("allocator") <= 1
    /\ (drop.status # "alive" /\ drop.pos > PosOf("allocator")) =>
           LogCount("allocator") = 1
    /\ (drop.status = "panicked" /\ drop.pos = PosOf("allocator")) => HandlesAlive

C12_Witness ==
    /\ drop.status = "panicked"
    /\ drop.pos = PosOf("allocator")
    /\ meshes # {}
    /\ frame_count >= 1

\* A teardown started by the owner of the Engine, idle or between a
\* begin_rendering and its end_rendering.
DropByOwner == drop.status = "dropping" /\ drop.from \in {"idle", "recording"}

\* The teardown has ended: Engine::drop returned, or it stopped with the
\* panic of its device_wait_idle or of its allocator check.
DropOver ==
    /\ drop.status \in {"done", "panicked"}
    /\ drop.pos > PosOf("join_render") \/ drop.pos = PosOf("wait_idle")

\* C13: shutdown terminates.  A teardown started while the Engine is idle or
\* between begin and end closes the channels, every thread leaves its loop,
\* every join returns and Engine::drop ends; it never waits forever.
C13_ShutdownTerminates == DropByOwner ~> DropOver

C13_Witness ==
    /\ drop.status = "done"
    /\ drop.from = "recording"
    /\ \A w \in Workers : worker[w].pc = "exited"
    /\ present.pc = "exited"
    /\ thread_count = 2
    /\ begins_recv[1] > 0

\* C14: fatal runtime GPU errors stop the frame.  After a failed fence wait
\* begin_rendering performs no reset of the fence and the pools, no uniform
\* write and no recording; after a failed submission or a failed present the
\* presentation thread submits and presents nothing more.
C14_FatalErrorsStopFrame ==
    [][/\ fence_wait_failed => ~(pc = "b_reset" /\ pc' # "b_reset")
       /\ present.pc = "dead" =>
              (present' = present /\ gpu_pending' \subseteq gpu_pending)]_vars

\* C15: load errors are returned.  Whenever a step of load_model or
\* load_material fails (file, decode, reflection, pipeline, texture, GPU
\* call) the call returns Err; the orchestrator does not panic and the frame
\* counter, the fences, the results, the channels and the presentation
\* thread are as before the call.
C15_LoadErrorsReturned ==
    [][load_log' # load_log =>
          /\ load_log'.failed # "none" => load_log'.returned = "Err"
          /\ pc' = pc
          /\ UNCHANGED <<frame_count, fence, sync_data, render_channels, present>>]_vars

\* C16: no leak on failed construction.  When a step of Mesh::new,
\* Texture::new, create_pipeline or load_material fails, no GPU object created
\* earlier in the call is left alive.
C16_NoLeakOnFailure ==
    (load_log.failed # "none" \/ load_log.returned = "Err") => load_log.leaked = {}

\* C17: pipeline-cache failures are never propagated.  With no failing call
\* of its own load_material returns Ok whatever the cache file is (missing,
\* unreadable, corrupt, valid), and once the teardown is past cleanup_cache
\* the cache is destroyed whether or not the file could be written.
C17_CacheNeverFatal ==
    /\ (load_log.call = "load_material" /\ load_log.failed = "none") =>
           load_log.returned = "Ok"
    /\ Passed("pipeline_cache") => pipeline_cache # "live"

\* The image count, the format and the extent of two swapchains agree.
SameSwapchain(a, b) ==
    /\ a.image_count = b.image_count
    /\ a.format = b.format
    /\ a.extent = b.extent

\* C18: swapchain round trip.  The swapchain a recreation builds has the
\* image count, the format and the extent of the swapchain Engine::new
\* creates for the same surface capabilities and the same requested
\* resolution.
C18_SwapchainRoundTrip ==
    [][swapchain'.id # swapchain.id =>
          SameSwapchain(swapchain',
                        create_swapchain(surface, SurfaceFormat, resolution))]_vars

C18_Witness ==
    /\ swapchain.id > 1
    /\ UndefinedExtent(surface.current_extent)
    /\ surface.max_image_count = surface.min_image_count
    /\ resolution = <<1024, 768>>
    /\ swapchain.extent = resolution
    /\ swapchain.image_count = surface.max_image_count

EndedWorkers == {w \in Workers : ends_recv[w] = frame_count + 1}

\* end_rendering has arrived at the barrier of the frame in progress.
AtOrPastBarrier == pc \in {"e_barrier", "e_present", "panicked"}

\* C20: the barrier of end_rendering.  The secondary buffers are executed
\* only when each of the N workers has taken the End of this frame and closed
\* its buffer; the barrier opens once per frame, on the N + 1 arrivals of the
\* N workers and the orchestrator; and no worker is past the barrier of a
\* frame whose end_rendering has not arrived at it.
C20_BarrierPerFrame ==
    /\ render_barrier.generation \in {frame_count, frame_count + 1}
    /\ render_barrier.generation = frame_count =>
          render_barrier.count =
              Cardinality(EndedWorkers) + (IF pc = "e_barrier" THEN 1 ELSE 0)
    /\ render_barrier.generation = frame_count + 1 =>
          /\ AtOrPastBarrier
          /\ render_barrier.count = 0
          /\ EndedWorkers = Workers
    /\ pc = "e_present" =>
          /\ render_barrier.generation = frame_count + 1
          /\ \A w \in Workers :
                /\ ends_recv[w] = frame_count + 1
                /\ secondary_buffers[Slot][w].state = "executable"
          /\ primary_buffer[Slot].state = "executable"
    /\ \A w \in EndedWorkers :
          worker[w].pc = "recv" =>
              (AtOrPastBarrier /\ render_barrier.generation = frame_count + 1)

C20_Witness ==
    /\ pc = "e_present"
    /\ frame_count >= 1
    /\ thread_count = 2
    /\ worker[0].pc = "recv"
    /\ worker[1].pc = "barrier"
    /\ render_barrier.generation = frame_count + 1

C22_OnePresentDataPerEnd ==
    [][LET s == frame_count % FRAMES_IN_FLIGHT
           sent == present.pc = "recv" /\ present'.pc = "submit"
       IN  /\ (pc = "e_present" /\ pc' = "idle") =>
                  /\ sent
                  /\ present'.data =
                         [render_semaphore |-> <<s, "graphics_semaphore">>,
                          present_semaphore |-> <<s, "present_semaphore">>,
                          cmd |-> s,
                          swapchain |-> swapchain.id,
                          image_index |-> swapchain.current_image_index,
                          signal_fence |-> s,
                          sync_data |-> s]
                  /\ frame_count' = frame_count + 1
           /\ sent => (pc = "e_present" /\ pc' = "idle")
           /\ present'.data # present.data =>
                  (sent \/ (present.pc = "record" /\ present'.data = NoData))
           /\ (pc = "b_reset" \/ InFrame) => swapchain' = swapchain
           /\ frame_count' # frame_count => sent
      ]_vars

\* The third frame, recorded in slot 0 on a rebuilt swapchain with image 1
\* acquired, has been handed over.
C22_Witness ==
    /\ pc = "idle"
    /\ frame_count = 3
    /\ present.pc = "submit"
    /\ present.data.cmd = 0
    /\ present.data.swapchain = 2
    /\ present.data.image_index = 1

\* ----------------------------------------------------------------- C23
\* The presentation thread is recording, or has recorded, the result of slot s.
Recording(s) ==
    \/ sync_data[s] # "NotDone"
    \/ present.pc \in {"record", "record_locked", "notify"} /\ present.data.sync_data = s

\* C23: the result of a slot is read and written only by the thread that
\* holds the slot's mutex; begin_rendering waiting for the result of a slot
\* that the presentation thread records leaves the wait, whether the result
\* was written before it looked or after it parked; a write or a
\* notification for one slot changes nothing of the other slot, and a
\* parked begin_rendering is woken only by the notification for its own slot.
C23_NoLostWakeup ==
    /\ [][/\ \A s \in Slots :
               /\ sync_data'[s] # sync_data[s] =>
                      \/ sync_mutex[s] = "begin" /\ pc = "b_locked" /\ Slot = s
                      \/ /\ sync_mutex[s] = "present"
                         /\ present.pc = "record_locked"
                         /\ present.data.sync_data = s
               /\ (sync_condvar[s] = "parked" /\ sync_condvar'[s] # "parked") =>
                      /\ present.pc = "notify"
                      /\ present.data.sync_data = s
               /\ (sync_data'[s] # sync_data[s] \/ sync_mutex'[s] # sync_mutex[s]
                      \/ sync_condvar'[s] # sync_condvar[s]) =>
                      \A t \in Slots \ {s} :
                          /\ sync_data'[t] = sync_data[t]
                          /\ sync_mutex'[t] = sync_mutex[t]
                          /\ sync_condvar'[t] = sync_condvar[t]
          /\ pc' = "b_locked" => sync_mutex'[Slot] = "begin"
          /\ (pc = "b_locked" /\ pc' # pc) =>
                 (pc' = "b_parked" <=> sync_data[Slot] = "NotDone")
         ]_vars
    /\ \A s \in Slots : (InWaitBlock /\ Slot = s /\ Recording(s)) ~> ~InWaitBlock

\* begin_rendering of the third frame holds the mutex of slot 0, whose
\* result the presentation thread wrote as OutOfDate before the wait started.
C23_Witness ==
    /\ pc = "b_locked"
    /\ frame_count = 2
    /\ sync_mutex[0] = "begin"
    /\ sync_data[0] = "OutOfDate"
    /\ present.pc = "recv"

\* ----------------------------------------------------------------- C24
\* What is bound for command p of a command list: the mesh (op = "bind_mesh")
\* or the material (op = "bind_pipeline") of the last such bind before p, NULL
\* when there is none.
BoundAt(cmds, p, op) ==
    LET binds == {q \in 1 .. (p - 1) : cmds[q].op = op}
        last == CHOOSE q \in binds : \A r \in binds : r <= q
    IN  IF binds = {} THEN NULL
        ELSE IF op = "bind_mesh" THEN cmds[last].mesh ELSE cmds[last].material

\* The commands a step appended to the secondary buffer worker w records into.
Appended(w) ==
    LET old == secondary_buffers[worker[w].cmd][w].cmds
        new == secondary_buffers'[worker[w].cmd][w].cmds
    IN  SubSeq(new, Len(old) + 1, Len(new))

\* C24: a worker handling a Render records a bind of the draw's mesh exactly
\* when that mesh is not its last-bound mesh, and a bind of the material's
\* pipeline with the global descriptor set exactly when the material is not
\* its last-bound material, then the draw; handling End clears both; so in
\* every secondary buffer each draw comes after a bind of its mesh and a bind
\* of its material in that buffer, with no bind of another mesh or material
\* between that bind and the draw.
C24_BindDiscipline ==
    /\ [][\A w \in Workers :
             (worker[w].pc = "recv" /\ render_channels[w] # <<>>
                 /\ render_channels'[w] = Tail(render_channels[w])) =>
                LET msg == Head(render_channels[w])
                IN  /\ (msg.tag = "Render" /\ worker[w].cmd # NullCmd) =>
                           LET rec == Appended(w)
                               ops == {rec[i].op : i \in 1 .. Len(rec)}
                           IN  /\ "bind_mesh" \in ops <=> msg.mesh # worker[w].last_mesh
                               /\ "bind_pipeline" \in ops
                                      <=> msg.material # worker[w].last_material
                               /\ rec[Len(rec)] = Cmd("draw", msg.mesh, msg.material,
                                                      msg.transform)
                               /\ \A i \in 1 .. (Len(rec) - 1) :
                                      /\ rec[i].op = "bind_mesh" => rec[i].mesh = msg.mesh
                                      /\ rec[i].op = "bind_pipeline" =>
                                             rec[i].material = msg.material
                               /\ worker'[w].last_mesh = msg.mesh
                               /\ worker'[w].last_material = msg.material
                    /\ msg.tag = "End" =>
                           /\ worker'[w].last_mesh = NULL
                           /\ worker'[w].last_material = NULL
         ]_vars
    /\ [](\A s \in Slots : \A w \in Workers :
             LET cmds == secondary_buffers[s][w].cmds
             IN  \A p \in 1 .. Len(cmds) :
                    cmds[p].op = "draw" =>
                       /\ BoundAt(cmds, p, "bind_mesh") = cmds[p].mesh
                       /\ BoundAt(cmds, p, "bind_pipeline") = cmds[p].material)

\* In the second frame a worker that ended the first frame with mesh 1 and
\* material 1 bound has recorded a draw of mesh 1 and material 1 after binding
\* both again, and a second draw with another mesh after binding the mesh only.
C24_Witness ==
    /\ frame_count = 1
    /\ \E w \in Workers :
          LET before == secondary_buffers[0][w].cmds
              cmds == secondary_buffers[1][w].cmds
          IN  /\ Len(before) > 0
              /\ before[Len(before)].mesh = 1
              /\ before[Len(before)].material = 1
              /\ Len(cmds) = 5
              /\ cmds[1] = Cmd("bind_mesh", 1, NULL, NULL)
              /\ cmds[2] = Cmd("bind_pipeline", NULL, 1, NULL)
              /\ cmds[3].op = "draw"
              /\ cmds[4].op = "bind_mesh"
              /\ cmds[5].op = "draw"
              /\ cmds[5].material = 1

LayoutAt(cmds, p) ==
    LET barriers == {q \in 1 .. (p - 1) : cmds[q].op = "pipeline_barrier"}
        last == CHOOSE q \in barriers : \A r \in barriers : r <= q
    IN  IF barriers = {} THEN "UNDEFINED" ELSE cmds[last].new_layout

\* C26: the command buffer recorded by Texture::new holds the transition from
\* UNDEFINED to TRANSFER_DST_OPTIMAL first, the copy from the staging buffer
\* to the image second and the transition from TRANSFER_DST_OPTIMAL to
\* SHADER_READ_ONLY_OPTIMAL third, and the image is in TRANSFER_DST_OPTIMAL
\* where the copy is recorded.
C26_UploadOrder ==
    texture_cmd # <<>> =>
        /\ Len(texture_cmd) = 3
        /\ texture_cmd[1] = ImageBarrier("UNDEFINED", "TRANSFER_DST_OPTIMAL")
        /\ texture_cmd[2].op = "copy_buffer_to_image"
        /\ texture_cmd[3] = ImageBarrier("TRANSFER_DST_OPTIMAL", "SHADER_READ_ONLY_OPTIMAL")
        /\ LayoutAt(texture_cmd, 2) = "TRANSFER_DST_OPTIMAL"

\* ----------------------------------------------------------------- C27
\* C27: once begin_rendering has rebuilt the swapchain, the instance it
\* replaced and its image views are destroyed before the retried begin does
\* anything: no replaced instance is alive while the retry waits, acquires an
\* image of the new swapchain, starts the primary buffer or sends Begin.
C27_OldSwapchainDestroyed ==
    /\ [](pc \in {"b_fence", "b_result", "b_acquire", "b_reset"} => OldSwapchains = {})
    /\ [][/\ (pc = "b_acquire" /\ swapchain' # swapchain) => OldSwapchains = {}
          /\ (primary_buffer[Slot].state # "recording"
                 /\ primary_buffer'[Slot].state = "recording") => OldSwapchains = {}
          /\ (\E w \in Workers : begins_sent'[w] # begins_sent[w]) => OldSwapchains = {}
         ]_vars

\* ----------------------------------------------------------------- C28
\* C28: the image count Engine::new requests for a surface with minimum min
\* and maximum max (0: no limit) is min + 1 when max is 0 and the smaller of
\* max and min + 1 otherwise; it is at least min and at most min + 1, and at
\* most max when max is not 0.
C28_ImageCount ==
    swapchain.id = 1 =>
        LET min == surface.min_image_count
            max == surface.max_image_count
            n == swapchain.image_count
        IN  /\ max = 0 => n = min + 1
            /\ max # 0 => n = (IF max < min + 1 THEN max ELSE min + 1)
            /\ min <= n
            /\ n <= min + 1
            /\ max # 0 => n <= max

\* A frame starts on the first swapchain of a surface whose maximum is its
\* minimum: the cap applies.
C28_Witness ==
    /\ swapchain.id = 1
    /\ surface.max_image_count = surface.min_image_count
    /\ swapchain.image_count = surface.min_image_count
    /\ pc = "b_reset"

\* ----------------------------------------------------------------- C29
\* C29: the extent Engine::new gives the swapchain is the current extent the
\* surface reports, unless the surface reports the undefined extent (a width
\* or a height of 2^32 - 1): then it is the configured resolution.
C29_Extent ==
    swapchain.id = 1 =>
        swapchain.extent =
            IF surface.current_extent[1] = U32Max \/ surface.current_extent[2] = U32Max
               THEN resolution
               ELSE surface.current_extent

\* A frame starts on the first swapchain of a surface that leaves the extent
\* to the swapchain: the extent is the configured resolution.
C29_Witness ==
    /\ swapchain.id = 1
    /\ surface.current_extent = <<U32Max, U32Max>>
    /\ swapchain.extent = resolution
    /\ pc = "b_reset"

\* ----------------------------------------------------------------- C30
\* C30: with c the parallelism the machine reports, 0 when it reports none,
\* the worker count N is max(1, floor(c / 2)), so at least 1; there are N
\* render channels, N render threads and N join handles of them, every frame
\* slot holds N secondary command buffers (and one primary), and the barrier
\* opens on the arrival of its participant number N + 1 and not before.
C30_Sizing ==
    /\ [](LET c == IF available_parallelism.ok THEN available_parallelism.value ELSE 0
              N == thread_count
          IN  /\ N >= 1
              /\ c < 2 => N = 1
              /\ c >= 2 => (2 * N <= c /\ c < 2 * N + 2)
              /\ Cardinality(DOMAIN render_channels) = N
              /\ Cardinality(DOMAIN worker) = N
              /\ drop.status = "alive" => drop.handles = N
              /\ \A s \in Slots : Cardinality(DOMAIN secondary_buffers[s]) = N
              /\ DOMAIN primary_buffer = Slots
              /\ render_barrier.count < N + 1)
    /\ [][render_barrier' # render_barrier =>
              IF render_barrier.count = thread_count
                 THEN /\ render_barrier'.generation = render_barrier.generation + 1
                      /\ render_barrier'.count = 0
                 ELSE /\ render_barrier'.generation = render_barrier.generation
                      /\ render_barrier'.count = render_barrier.count + 1]_vars

\* The machine reports no parallelism: one worker, and the barrier of the
\* second frame has opened on the arrival of the worker and the orchestrator.
C30_Witness ==
    /\ ~available_parallelism.ok
    /\ thread_count = 1
    /\ DOMAIN render_channels = {0}
    /\ frame_count = 1
    /\ render_barrier.generation = 2
    /\ pc = "e_present"

\* ----------------------------------------------------------------- C31
\* The calls a step appended to cleanup_log.
CleanupCalls == SubSeq(cleanup_log', Len(cleanup_log) + 1, Len(cleanup_log'))

\* C31: cleanup_cache on a CACHE that was never initialized calls nothing,
\* writes no file and destroys nothing; on an initialized CACHE it first asks
\* the driver for the cache data (and writes the file when it got data), and
\* then destroys the cache, once, whether the data was saved or not.  Nothing
\* else destroys the cache or writes the file.
C31_CleanupCache ==
    /\ [][/\ (DropAt("pipeline_cache") /\ drop' # drop) =>
                 IF pipeline_cache = "uninit"
                    THEN /\ CleanupCalls = <<>>
                         /\ cache_file' = cache_file
                         /\ pipeline_cache' = "uninit"
                    ELSE /\ CleanupCalls[1] = "get_pipeline_cache_data"
                         /\ CleanupCalls[Len(CleanupCalls)] = "destroy_pipeline_cache"
                         /\ Cardinality({i \in DOMAIN CleanupCalls :
                                CleanupCalls[i] = "destroy_pipeline_cache"}) = 1
                         /\ pipeline_cache' = "destroyed"
                         /\ cache_file' # cache_file =>
                                (Len(CleanupCalls) = 3 /\ CleanupCalls[2] = "fs::write")
          /\ ~(DropAt("pipeline_cache") /\ drop' # drop) =>
                 /\ cleanup_log' = cleanup_log
                 /\ cache_file' = cache_file
                 /\ pipeline_cache' # pipeline_cache => pipeline_cache' = "live"
         ]_vars
    /\ [](Cardinality({i \in DOMAIN cleanup_log :
               cleanup_log[i] = "destroy_pipeline_cache"})
             = (IF pipeline_cache = "destroyed" THEN 1 ELSE 0))

\* The teardown is over; cleanup_cache got the data of an initialized cache,
\* the write of the file failed half way, and the cache was destroyed.
C31_Witness ==
    /\ drop.status = "done"
    /\ cleanup_log = <<"get_pipeline_cache_data", "fs::write", "destroy_pipeline_cache">>
    /\ cache_file = "corrupt"
    /\ pipeline_cache = "destroyed"
    /\ materials = {}

\* ----------------------------------------------------------------- C32
\* The handles that hold a reference: made or being made, and not yet
\* released by their drop.
HoldingHandles ==
    {h \in Handles : allocator.handle[h].state \in {"new", "live", "dropping"}}

Presenting == present.pc \in {"submit", "present", "record"}

\* C33: end_rendering of frame k returns in the step in which the
\* presentation thread, waiting in recv with nothing in hand, takes the
\* PresentData of frame k; by then the result of frame k - 1 is recorded.
\* The presentation thread holds at most one PresentData, that of the last
\* frame ended, so the frame being started or recorded is at most one ahead
\* of the frame being presented.
C33_OneFrameAhead ==
    /\ [][(pc = "e_present" /\ pc' = "idle") =>
              /\ present.pc = "recv"
              /\ present.data = NoData
              /\ present'.pc = "submit"
              /\ present'.data = PresentDataOf(Slot)
              /\ frame_count' = frame_count + 1
              /\ frame_count >= 1 =>
                     sync_data[(frame_count - 1) % FRAMES_IN_FLIGHT] # "NotDone"]_vars
    /\ [](/\ Presenting =>
                /\ frame_count >= 1
                /\ present.data.cmd = (frame_count - 1) % FRAMES_IN_FLIGHT
                /\ present.data.sync_data = present.data.cmd
          /\ present.pc = "recv" => present.data = NoData)

\* Frame 2 is being recorded while frame 1 is being presented.
C33_Witness ==
    /\ frame_count = 2
    /\ pc = "recording"
    /\ present.pc = "present"
    /\ present.data.cmd = 1
    /\ sync_data[0] = "NotDone"

\* ----------------------------------------------------------------- C34
\* The activation of begin_rendering the caller made, before it has read and
\* reset the result of its slot: not the retry after a recreation.
CallerBeforeRead == pc \in {"b_fence", "b_result", "b_locked"} /\ recreated = 0

\* C34: when the caller enters begin_rendering for a frame k >= FRAMES_IN_FLIGHT
\* the result of frame k - FRAMES_IN_FLIGHT is in the slot, Ok or OutOfDate;
\* it stays there until that begin_rendering reads it, so its wait_while
\* finds the condition false and does not park.
C34_WaitDoesNotBlock ==
    /\ [][(pc = "idle" /\ pc' = "b_fence" /\ frame_count >= FRAMES_IN_FLIGHT) =>
              sync_data[Slot] \in {"Ok", "OutOfDate"}]_vars
    /\ []((CallerBeforeRead /\ frame_count >= FRAMES_IN_FLIGHT) =>
              sync_data[Slot] \in {"Ok", "OutOfDate"})
    /\ [](pc = "b_parked" => recreated > 0)

\* begin_rendering of frame 2 holds the mutex of slot 0, about to evaluate
\* the condition, with the result of frame 0 recorded, while the presentation
\* thread is writing the result of frame 1.
C34_Witness ==
    /\ frame_count = 2
    /\ pc = "b_locked"
    /\ recreated = 0
    /\ sync_data[0] = "Ok"
    /\ present.pc = "record_locked"
    /\ present.data.sync_data = 1

\* ----------------------------------------------------------------- C35
\* Worker w is between a Begin and its End: it holds a secondary buffer.
InsideFrame(w) == worker[w].cmd # NullCmd

\* C35: a worker holds a secondary buffer only while the orchestrator is
\* between the Begin it sent and the return of its barrier wait (or has
\* panicked there), and the buffer is the one of the frame's slot; a buffer is
\* in the recording state only while its worker holds it.  The secondary
\* buffers change only in the reset of begin_rendering, which finds no worker
\* inside a frame and no buffer of the slot being recorded, and in the
\* workers' steps inside the frame, which touch the frame's slot only; and
\* end_rendering executes them when every worker has ended its buffer.
C35_WorkersOnlyInFrame ==
    /\ [](\A w \in Workers :
             /\ InsideFrame(w) =>
                    (pc \in {"recording", "e_barrier", "panicked"} /\ worker[w].cmd = Slot)
             /\ \A s \in Slots :
                    secondary_buffers[s][w].state = "recording" => worker[w].cmd = s)
    /\ [][/\ secondary_buffers' # secondary_buffers =>
                 IF pc = "b_reset"
                    THEN \A w \in Workers :
                            /\ ~InsideFrame(w)
                            /\ secondary_buffers[Slot][w].state # "recording"
                            /\ worker'[w] = worker[w]
                    ELSE /\ pc \in {"recording", "e_barrier", "panicked"}
                         /\ pc' = pc
                         /\ \A s \in Slots \ {Slot} :
                                secondary_buffers'[s] = secondary_buffers[s]
          /\ (pc = "e_barrier" /\ pc' = "e_present") =>
                 \A w \in Workers :
                    /\ ~InsideFrame(w)
                    /\ secondary_buffers[Slot][w].state = "executable"
                    /\ worker'[w] = worker[w]
         ]_vars

\* Frame 2 reuses slot 0: its pools were reset and worker 0 is recording
\* again, while worker 1 has not yet returned from the barrier of frame 1.
C35_Witness ==
    /\ frame_count = 2
    /\ pc = "recording"
    /\ thread_count = 2
    /\ worker[0].cmd = 0
    /\ secondary_buffers[0][0].state = "recording"
    /\ worker[1].pc = "barrier"
    /\ secondary_buffers[0][1].state = "initial"

\* ----------------------------------------------------------------- C36
\* end_rendering waits at the barrier of this frame, a worker has died
\* without arriving, and every other worker has arrived or died: no thread
\* is left that could make the arrival the barrier still needs.
BarrierStuck ==
    /\ pc = "e_barrier"
    /\ render_barrier.generation = barrier_gen
    /\ \E w \in Workers : worker[w].pc = "dead"
    /\ \A w \in Workers : worker[w].pc \in {"dead", "barrier"}

\* C36: when a worker terminates abnormally while handling a message of the
\* current frame, end_rendering of that frame is not left waiting at the
\* barrier for ever.
C36_DeadWorkerNoHang == ~BarrierStuck

\* ----------------------------------------------------------------- C37
\* The presentation thread panicked in queue_submit or queue_present.
PresentDead == present.pc = "dead"

\* C37: once the presentation thread has panicked, the end_rendering that
\* comes to its hand-off leaves it only by failing, without counting the
\* frame; a call of begin_rendering or end_rendering in progress returns or
\* fails; and a teardown of the Engine ends: its join of the presentation
\* thread returns.
C37_PresentDeathNoHang ==
    /\ [][(PresentDead /\ pc = "e_present" /\ pc' # pc) =>
              (pc' = "panicked" /\ frame_count' = frame_count /\ present' = present)]_vars
    /\ (PresentDead /\ drop.status = "alive") ~>
          (pc \in {"idle", "recording", "panicked", "dropped"})
    /\ (PresentDead /\ drop.status = "dropping") ~> DropOver
    /\ [](Passed("join_present") => present.pc \in {"exited", "dead"})

\* The submission of frame 0 failed, end_rendering of frame 1 failed at its
\* send, and the Engine dropped by the unwinding was torn down to the end.
C37_Witness ==
    /\ PresentDead
    /\ present.data.cmd = 0
    /\ present.queue = <<>>
    /\ frame_count = 1
    /\ drop.from = "panicked"
    /\ drop.status = "done"
    /\ primary_buffer[1].state = "executable"

\* ----------------------------------------------------------------- C38
\* load_material took a handle out of CACHE that cleanup_cache had destroyed
\* and called create_graphics_pipelines with it: the call returned a
\* Material, or it failed at that call.
StaleCacheUsed ==
    /\ pipeline_cache = "destroyed"
    /\ \/ materials' \ materials # {}
       \/ /\ load_log' # load_log
          /\ load_log'.call = "load_material"
          /\ load_log'.failed = "create_graphics_pipelines"

\* C38: the process-wide pipeline cache handle is never passed to pipeline
\* creation after cleanup_cache destroyed it, over the Engines a process
\* creates, their load_material calls and their drops.
C38_CacheNeverStale == [][~StaleCacheUsed]_vars

\* ----------------------------------------------------------------- C39
\* The client is inside Game::tick.
InTick == game.pc \in {"begin", "render"}

\* begin_rendering is entered.
BeginEntered == pc = "idle" /\ pc' = "b_fence"

\* render is called: the frame has one more call.
RenderCalled == Len(calls') = Len(calls) + 1

\* end_rendering is entered.
EndEntered == pc = "recording" /\ pc' \in {"e_barrier", "panicked"} /\ calls' = calls
                 /\ render_channels' # render_channels

\* C39: the client respects the frame protocol.  begin_rendering is entered
\* only as the first call of a tick, render is called only inside a tick, for
\* the entities that have a mesh, a material and a transform, one call each
\* in their order, end_rendering is entered only when each of them was
\* rendered, and a tick that ends has run exactly one frame; a tick runs only
\* while the window is visible; resize is called, and wait is running, only
\* outside a tick, with no frame begun and not ended.
C39_FrameProtocol ==
    /\ [][/\ BeginEntered => (game.pc = "begin" /\ frame_count = game.frame)
          /\ RenderCalled =>
                /\ game.pc = "render"
                /\ Len(calls') <= Len(RenderList)
                /\ calls'[Len(calls')].mesh = RenderList[Len(calls')].mesh
                /\ calls'[Len(calls')].material = RenderList[Len(calls')].material
          /\ EndEntered => (game.pc = "render" /\ Len(calls) = Len(RenderList))
          /\ (game.pc = "render" /\ game'.pc = "events") =>
                (frame_count = game.frame + 1 /\ Len(calls) = Len(RenderList))
          /\ resolution' # resolution => (~InTick /\ pc = "idle")]_vars
    /\ [](InTick => game.visible)
    /\ [](game.pc = "wait" => pc \in {"idle", "panicked"})
    /\ [](pc \notin {"idle", "panicked", "dropped"} => InTick)

\* Two ticks have run, each with its two draws, the window was resized
\* between ticks and is suspended now.
C39_Witness ==
    /\ game.pc = "events"
    /\ ~game.visible
    /\ frame_count = 2
    /\ game.frame = 1
    /\ Len(calls) = 2
    /\ resolution = <<1024, 768>>

\* ----------------------------------------------------------------- C40
\* The allocator-still-in-use fatal of Engine::drop fired.
AllocatorFatal == drop.status = "panicked" /\ drop.pos = PosOf("allocator")

====
